---- MODULE Spec2Model ----
(***************************************************************************)
(* Model of the structured-generation pipeline of ai_flashcards:           *)
(* backend/app/services/llm_client.py (LLMClient.generate_deck and its     *)
(* helpers).  One run of generate_deck is a small state machine whose only *)
(* suspension points are the two awaits on the structured LLM capability;  *)
(* everything the coroutine does between two awaits is one atomic action.  *)
(***************************************************************************)
EXTENDS Integers, Sequences, FiniteSets, TLC

VARIABLES runs, now, uuid_next, calc, http, db, llm_client, environ, client_calls

vars == <<runs, now, uuid_next, calc, http, db, llm_client, environ, client_calls>>

(***************************************************************************)
(* Bounds of the model and constants of the program.                       *)
(***************************************************************************)
\* largest value of one usage counter reported by the capability
MaxTok == 1
\* longest error message an exception of the capability carries
MaxErrLen == 1601
\* _as_text(value, max_chars=1600)
max_chars == 1600

RunIds == {"r1"}

\* Python's None
None == [tag |-> "None"]

Min(a, b) == IF a <= b THEN a ELSE b

\* os.environ without the variables the program reads
NoEnviron == <<>>

(***************************************************************************)
(* Text.  A str is modelled by the message it spells and by how many of    *)
(* its leading characters are kept, so that slicing text[:n] is visible.   *)
(***************************************************************************)
Text(m, n) == [tag |-> "str", of |-> m, len |-> n]

EmptyText == Text("", 0)

\* text[:n]
Take(t, n) == IF Min(t.len, n) = 0 THEN EmptyText ELSE [t EXCEPT !.len = Min(t.len, n)]

\* str(exception): the whole message
Str(e) == Text(e.msg, e.len)

\* LLMClient._as_text: None -> "", a str -> itself, anything else ->
\* json.dumps(value), which raises TypeError for an exception object, so
\* str(value); the result is cut to max_chars characters.
as_text(value) ==
    IF value = None THEN EmptyText
    ELSE IF value.tag = "str" THEN Take(value, max_chars)
    ELSE Take(Str(value), max_chars)

(***************************************************************************)
(* What the structured capability (structured_llm.ainvoke) can answer.     *)
(***************************************************************************)
ErrLens == {1, MaxErrLen}

ErrMsgs == {"invalid json", "still invalid"}

\* result["parsing_error"] when present: an exception object
ParsingErrors ==
    {[tag |-> "Exception", type |-> "ValueError", msg |-> m, len |-> n] :
        m \in ErrMsgs, n \in ErrLens}

Hint(m) == Text(m, 1)

cA == [title |-> "Binary Search Tree",
       bullets |-> <<"b1", "b2", "b3", "b4", "b5">>,
       example_possible |-> TRUE,
       example_hint |-> Hint("Try insert/search trace")]

cB == [title |-> "Rotation",
       bullets |-> <<"r1", "r2", "r3", "r4", "r5">>,
       example_possible |-> FALSE,
       example_hint |-> None]

cC == [title |-> "Traversal",
       bullets |-> <<"t1", "t2", "t3", "t4", "t5">>,
       example_possible |-> TRUE,
       example_hint |-> None]

\* result["parsed"] when present: a validated LLMDeckOutput
ParsedOutputs ==
    {[tag |-> "LLMDeckOutput", concepts |-> <<cA, cA, cA>>],
     [tag |-> "LLMDeckOutput", concepts |-> <<cA, cB, cC, cB>>]}

UsageKeys == {"input_tokens", "output_tokens", "total_tokens"}

\* usage_metadata dicts: any subset of the three counters may be present
UsageDicts ==
    {[tag |-> "dict", items |-> f] :
        f \in UNION {[K -> 0..MaxTok] : K \in SUBSET UsageKeys}}

EmptyDict == [tag |-> "dict", items |-> <<>>]

Contents == {Text("{bad json}", 10)}

\* result["raw"]: None, a message without usage_metadata attribute, or a
\* message whose usage_metadata is None or a dict
RawMessages ==
    {None}
    \cup {[tag |-> "AIMessage", attrs |-> {"content"},
           usage_metadata |-> None, content |-> c] : c \in Contents}
    \cup {[tag |-> "AIMessage", attrs |-> {"content", "usage_metadata"},
           usage_metadata |-> u, content |-> c] :
              u \in {None} \cup UsageDicts, c \in Contents}

\* pydantic ValidationError values (e.errors() is a list of error dicts)
ValidationErrors ==
    {[tag |-> "Exception", type |-> "ValidationError",
      errors |-> <<[loc |-> <<"concepts">>, msg |-> "Field required", type |-> "missing"]>>],
     [tag |-> "Exception", type |-> "ValidationError",
      errors |-> <<[loc |-> <<>>, msg |-> "Input should be an object", type |-> "model_type"],
                   [loc |-> <<"concepts", "bullets">>, msg |-> "List too short", type |-> "too_short"]>>]}

\* failures of the capability call that are no parse/validation outcome
ProviderFailures ==
    {[tag |-> "Exception", type |-> t, msg |-> t, len |-> 1] :
        t \in {"APIConnectionError", "AuthenticationError", "RateLimitError",
               "APITimeoutError", "CancelledError"}}

\* everything ainvoke can raise
CapabilityExceptions == ProviderFailures \cup ValidationErrors

\* a concept with four bullets, one without title, one with an empty bullet
cShort == [title |-> "Heap",
           bullets |-> <<"h1", "h2", "h3", "h4">>,
           example_possible |-> FALSE,
           example_hint |-> None]

cLong == [title |-> "Trie",
          bullets |-> <<"x1", "x2", "x3", "x4", "x5", "x6">>,
          example_possible |-> FALSE,
          example_hint |-> None]

cUntitled == [title |-> "",
              bullets |-> <<"u1", "u2", "u3", "u4", "u5">>,
              example_possible |-> FALSE,
              example_hint |-> None]

cBlank == [title |-> "Graph",
           bullets |-> <<"g1", "g2", "", "g4", "g5">>,
           example_possible |-> TRUE,
           example_hint |-> None]

\* a concept that breaks three rules at once: no title and two empty bullets
cBroken == [title |-> "",
            bullets |-> <<"", "k2", "k3", "k4", "">>,
            example_possible |-> FALSE,
            example_hint |-> None]

\* objects a capability that does not validate (a test double) can hand out
\* as result["parsed"]: too few or too many concepts, malformed concepts
UnvalidatedOutputs ==
    {[tag |-> "LLMDeckOutput", concepts |-> <<cA, cB>>],
     [tag |-> "LLMDeckOutput", concepts |-> <<cA, cB, cC, cA, cB, cC, cA, cB>>],
     [tag |-> "LLMDeckOutput", concepts |-> <<cA, cShort, cC>>],
     [tag |-> "LLMDeckOutput", concepts |-> <<cA, cB, cLong>>],
     [tag |-> "LLMDeckOutput", concepts |-> <<cUntitled, cB, cC>>],
     [tag |-> "LLMDeckOutput", concepts |-> <<cA, cB, cBlank>>],
     [tag |-> "LLMDeckOutput", concepts |-> <<cA, cBroken, cShort>>]}

\* one raw response that reports all three counters
FullUsageRaw ==
    [tag |-> "AIMessage", attrs |-> {"content", "usage_metadata"},
     usage_metadata |-> [tag |-> "dict",
                         items |-> [k \in UsageKeys |-> IF k = "total_tokens" THEN MaxTok ELSE 0]],
     content |-> Text("{bad json}", 10)]

\* one raw response whose content is longer than max_chars
LongContentRaw ==
    [tag |-> "AIMessage", attrs |-> {"content", "usage_metadata"},
     usage_metadata |-> [tag |-> "dict", items |-> [k \in UsageKeys |-> MaxTok]],
     content |-> Text("{very long bad json}", MaxErrLen)]

\* result["parsed"] of a capability of the given kind: "typed" is
\* llm.with_structured_output(LLMDeckOutput, include_raw=True), "untyped" a
\* stand-in that hands out unvalidated objects, "small" a typed one with few
\* answers, "tiny" a typed one with the fewest: one deck or none
ParsedAnswers(kind) ==
    IF kind = "untyped" THEN {None} \cup ParsedOutputs \cup UnvalidatedOutputs
    ELSE IF kind = "tiny"
    THEN {None, [tag |-> "LLMDeckOutput", concepts |-> <<cA, cB, cC, cB>>]}
    ELSE {None} \cup ParsedOutputs

\* one raw response whose total is the sum of its two other counters
SummedUsageRaw ==
    [tag |-> "AIMessage", attrs |-> {"content", "usage_metadata"},
     usage_metadata |-> [tag |-> "dict",
                         items |-> [k \in UsageKeys |-> IF k = "output_tokens" THEN 0 ELSE MaxTok]],
     content |-> Text("{bad json}", 10)]

\* one raw response that reports a counter below zero
NegativeUsageRaw ==
    [tag |-> "AIMessage", attrs |-> {"content", "usage_metadata"},
     usage_metadata |-> [tag |-> "dict",
                         items |-> [k \in UsageKeys |-> IF k = "output_tokens" THEN 0 ELSE -1]],
     content |-> Text("{bad json}", 10)]

\* result["raw"] of a capability of the given kind
RawAnswers(kind) ==
    IF kind = "typed" THEN RawMessages \cup {LongContentRaw}
    ELSE IF kind = "tiny" THEN {FullUsageRaw}
    ELSE IF kind = "untyped" THEN {None, FullUsageRaw, SummedUsageRaw, NegativeUsageRaw}
    ELSE {None, FullUsageRaw}

\* result["parsing_error"] of a capability of the given kind
ErrorAnswers(kind) ==
    IF kind = "typed" THEN {None} \cup ParsingErrors
    ELSE IF kind = "tiny" THEN {None}
    ELSE {None, [tag |-> "Exception", type |-> "ValueError", msg |-> "invalid json", len |-> 1]}

\* what ainvoke of a capability of the given kind can raise
RaisedBy(kind) ==
    IF kind = "typed" THEN CapabilityExceptions
    ELSE {[tag |-> "Exception", type |-> "APITimeoutError", msg |-> "APITimeoutError", len |-> 1]}

(***************************************************************************)
(* Token accounting.                                                       *)
(***************************************************************************)
\* the errors pydantic reports for one ge=0 field of TokenUsage
NegativeCounterErrors(field, value) ==
    IF value < 0
    THEN <<[loc |-> <<field>>, msg |-> "Input should be greater than or equal to 0",
            type |-> "greater_than_equal"]>>
    ELSE <<>>

\* TokenUsage(prompt=, completion=, total=): each field is ge=0, and the
\* ValidationError lists one error per field below zero
TokenUsage(p, c, t) ==
    IF p < 0 \/ c < 0 \/ t < 0
    THEN [tag |-> "Exception", type |-> "ValidationError",
          errors |-> NegativeCounterErrors("prompt", p)
                     \o NegativeCounterErrors("completion", c)
                     \o NegativeCounterErrors("total", t)]
    ELSE [tag |-> "TokenUsage", prompt |-> p, completion |-> c, total |-> t]

\* getattr(obj, name, default); None has none of the attributes read here
Getattr(obj, name, default) ==
    IF obj = None THEN default
    ELSE IF name \in obj.attrs THEN obj[name] ELSE default

\* value or {}
OrEmptyDict(v) ==
    IF v = None THEN EmptyDict
    ELSE IF DOMAIN v.items = {} THEN EmptyDict ELSE v

\* dict.get(key, default)
DictGet(d, k, default) == IF k \in DOMAIN d.items THEN d.items[k] ELSE default

\* variant of _token_usage_from_raw that indexes the counters (usage[key])
token_usage_from_raw_strict(raw_message) ==
    LET usage == OrEmptyDict(Getattr(raw_message, "usage_metadata", None))
    IN  IF UsageKeys \subseteq DOMAIN usage.items
        THEN TokenUsage(usage.items["input_tokens"], usage.items["output_tokens"],
                        usage.items["total_tokens"])
        ELSE [tag |-> "Exception", type |-> "KeyError", msg |-> "input_tokens", len |-> 1]

\* LLMClient._token_usage_from_raw
token_usage_from_raw(raw_message) ==
    LET usage == OrEmptyDict(Getattr(raw_message, "usage_metadata", None))
    IN  TokenUsage(DictGet(usage, "input_tokens", 0),
                   DictGet(usage, "output_tokens", 0),
                   DictGet(usage, "total_tokens", 0))

\* variant of _combine_tokens that keeps the first call's total
combine_tokens_first_total(first, second) ==
    TokenUsage(first.prompt + second.prompt,
               first.completion + second.completion,
               first.total)

\* variant of _combine_tokens that keeps the larger of the two totals
combine_tokens_max_total(first, second) ==
    TokenUsage(first.prompt + second.prompt,
               first.completion + second.completion,
               IF first.total >= second.total THEN first.total ELSE second.total)

\* LLMClient._combine_tokens
combine_tokens(first, second) ==
    TokenUsage(first.prompt + second.prompt,
               first.completion + second.completion,
               first.total + second.total)

(***************************************************************************)
(* Prompts (backend/app/prompts/registry.py).  A formatted string is       *)
(* modelled by its template and the values substituted into it.            *)
(***************************************************************************)
PROMPT_VERSIONS == [deck_system |-> "v1", deck_user |-> "v1"]

DEFAULT_MODEL == "gpt-4o-mini"

\* os.getenv("OPENAI_MODEL", DEFAULT_MODEL)
Models == {DEFAULT_MODEL, "gpt-4o"}

\* LLMClient.__init__ with OPENAI_API_KEY set: the model name and the
\* structured capability
LLMClient(model_name, structured_llm) ==
    [tag |-> "LLMClient", model |-> model_name, structured_llm |-> structured_llm]

\* get_deck_prompts
get_deck_prompts(topic, difficulty_level, max_concepts, scope) ==
    LET scope_line == IF scope = None \/ scope = EmptyText
                      THEN [prefix |-> "", scope |-> EmptyText]
                      ELSE [prefix |-> "Scope: ", scope |-> scope]
        user_prompt == [tag |-> "prompt", template |-> "DECK_USER_PROMPT_V1",
                        topic |-> topic,
                        difficulty_level |-> difficulty_level,
                        max_concepts |-> max_concepts,
                        scope_line |-> scope_line]
    IN  <<[tag |-> "prompt", template |-> "DECK_SYSTEM_PROMPT_V1"], user_prompt>>

\* the schema handed to the repair prompt: json.dumps(LLMDeckOutput.model_json_schema())
schema_json == "LLMDeckOutput.model_json_schema"

\* validated DeckGenerateRequest values handed to generate_deck
Requests ==
    {[topic |-> Text("BST", 3), difficulty_level |-> "beginner",
      max_concepts |-> 3, scope |-> None],
     [topic |-> Text("Binary Search Trees", 19), difficulty_level |-> "advanced",
      max_concepts |-> 4, scope |-> Text("Balanced BSTs", 13)]}

DeckIds == [r1 |-> "deck-1", r2 |-> "deck-2"]

(***************************************************************************)
(* One run of LLMClient.generate_deck.  The record holds the coroutine's   *)
(* locals, its position, the calls it has made on the capability and how   *)
(* it ended (returned a DeckResponse or raised).                           *)
(***************************************************************************)
NewRun(request, deck_id) ==
    [pc |-> "start",
     self |-> None,
     request |-> request,
     deck_id |-> deck_id,
     system_prompt |-> None,
     user_prompt |-> None,
     start_time |-> None,
     sent |-> <<>>,
     sent_at |-> <<>>,
     answered_at |-> <<>>,
     ended_at |-> None,
     uuids_drawn |-> 0,
     llm_output |-> None,
     raw_message |-> None,
     parsing_error |-> None,
     actual_tokens |-> None,
     repaired_output |-> None,
     repaired_raw |-> None,
     repair_error |-> None,
     ainvoke_count |-> 0,
     repair_count |-> 0,
     answers |-> <<>>,
     thrown |-> None,
     returned |-> None,
     raised |-> None]

IsException(v) == v.tag = "Exception"

\* SchemaValidationFailedError(message, details): self.details = details or {}
SchemaValidationFailedError(message, details) ==
    [tag |-> "Exception", type |-> "SchemaValidationFailedError",
     message |-> message, details |-> details]

\* ".".join(str(part) for part in loc)
RECURSIVE JoinDot(_)
JoinDot(loc) ==
    IF Len(loc) = 0 THEN ""
    ELSE IF Len(loc) = 1 THEN loc[1]
    ELSE loc[1] \o "." \o JoinDot(Tail(loc))

\* the entry built for one error of e.errors() (lines 251-256)
ErrorEntry(err) ==
    [field |-> IF JoinDot(err.loc) = "" THEN "response" ELSE JoinDot(err.loc),
     message |-> err.msg,
     type |-> err.type]

\* variant of lines 250-259 that reports the first error only
handle_exception_first_error(run, e) ==
    IF e.type = "ValidationError"
    THEN [run EXCEPT !.pc = "done",
                     !.raised = SchemaValidationFailedError(
                         "Deck output failed schema validation.",
                         [validation_errors |-> <<ErrorEntry(e.errors[1])>>])]
    ELSE [run EXCEPT !.pc = "done", !.raised = e]

\* variant of the except clauses that converts every exception
handle_exception_wrap(run, e) ==
    IF e.type = "SchemaValidationFailedError"
    THEN [run EXCEPT !.pc = "done", !.raised = e]
    ELSE [run EXCEPT !.pc = "done",
                     !.raised = SchemaValidationFailedError(
                         "Deck output failed schema validation.",
                         [validation_errors |->
                             <<[field |-> "response", message |-> "Invalid response field",
                                type |-> "validation_error"]>>])]

\* the except clauses of generate_deck (lines 248-269): a pydantic
\* ValidationError becomes SchemaValidationFailedError, everything else is
\* re-raised as it is
handle_exception(run, e) ==
    IF e.type = "ValidationError"
    THEN [run EXCEPT !.pc = "done",
                     !.raised = SchemaValidationFailedError(
                         "Deck output failed schema validation.",
                         [validation_errors |->
                             [i \in 1..Len(e.errors) |-> ErrorEntry(e.errors[i])]])]
    ELSE [run EXCEPT !.pc = "done", !.raised = e]

\* variant of line 172 that repairs every answer
needs_repair_always(llm_output, parsing_error) == TRUE

\* variant of line 172 that looks at the parsed output only
needs_repair_ignore_error(llm_output, parsing_error) == llm_output = None

\* the condition of line 172
needs_repair(llm_output, parsing_error) ==
    llm_output = None \/ parsing_error # None

\* variant of line 187 that looks at the repaired output only
repair_failed_ignore_error(repaired_output, repair_error) == repaired_output = None

\* the condition of line 187
repair_failed(repaired_output, repair_error) ==
    repaired_output = None \/ repair_error # None

\* uuid4(): the k-th identifier drawn
UUID(k) == [tag |-> "UUID", n |-> k]

\* variant of lines 213-218 that does not pass the example hint on
Concept_no_hint(c, card_id) ==
    [card_id |-> card_id,
     title |-> c.title,
     bullets |-> c.bullets,
     example_possible |-> c.example_possible,
     example_hint |-> None]

\* Concept(title=, bullets=, example_possible=, example_hint=): card_id is
\* filled by the model's default factory
Concept(c, card_id) ==
    [card_id |-> card_id,
     title |-> c.title,
     bullets |-> c.bullets,
     example_possible |-> c.example_possible,
     example_hint |-> c.example_hint]

\* limits of the deck schemas: concepts per deck, bullets per concept
MinConcepts == 3

MaxConcepts == 7

BulletCount == 5

\* the field rules shared by LLMConcept and Concept: a title of at least one
\* character and exactly five bullets of at least one character each
ValidConcept(c) ==
    /\ c.title # ""
    /\ Len(c.bullets) = BulletCount
    /\ \A i \in 1..Len(c.bullets) : c.bullets[i] # ""

\* one error for every empty bullet from position i on, located by its index
RECURSIVE BlankBulletErrors(_, _)
BlankBulletErrors(bullets, i) ==
    IF i > Len(bullets) THEN <<>>
    ELSE (IF bullets[i] = ""
          THEN <<[loc |-> <<"bullets", ToString(i - 1)>>,
                  msg |-> "String should have at least 1 character",
                  type |-> "string_too_short"]>>
          ELSE <<>>)
         \o BlankBulletErrors(bullets, i + 1)

\* the errors pydantic reports for a concept that breaks a rule: one for
\* every field rule that is broken, in the order of the fields
ConceptErrors(c) ==
    (IF c.title = ""
     THEN <<[loc |-> <<"title">>, msg |-> "String should have at least 1 character",
             type |-> "string_too_short"]>>
     ELSE <<>>)
    \o (IF Len(c.bullets) < BulletCount
        THEN <<[loc |-> <<"bullets">>, msg |-> "List should have at least 5 items",
                type |-> "too_short"]>>
        ELSE IF Len(c.bullets) > BulletCount
        THEN <<[loc |-> <<"bullets">>, msg |-> "List should have at most 5 items",
                type |-> "too_long"]>>
        ELSE BlankBulletErrors(c.bullets, 1))

\* the rule on the number of concepts shared by LLMDeckOutput and DeckResponse
ValidConceptCount(n) == MinConcepts <= n /\ n <= MaxConcepts

\* the error pydantic reports for a concepts list of the wrong length
ConceptCountError(n) ==
    IF n < MinConcepts
    THEN [loc |-> <<"concepts">>, msg |-> "List should have at least 3 items",
          type |-> "too_short"]
    ELSE [loc |-> <<"concepts">>, msg |-> "List should have at most 7 items",
          type |-> "too_long"]

\* LLMDeckOutput.model_validate accepts the object
ValidLLMDeckOutput(o) ==
    /\ ValidConceptCount(Len(o.concepts))
    /\ \A i \in 1..Len(o.concepts) : ValidConcept(o.concepts[i])

ValidationError(errors) ==
    [tag |-> "Exception", type |-> "ValidationError", errors |-> errors]

\* variant of lines 211-220 whose concepts all receive the same identifier
assemble_one_id(run, llm_output, actual_tokens, uuid_base) ==
    LET n == Len(llm_output.concepts)
        concepts == [i \in 1..n |-> Concept(llm_output.concepts[i], UUID(uuid_base + 1))]
        response == [deck_id |-> run.deck_id,
                     topic |-> run.request.topic,
                     difficulty_level |-> run.request.difficulty_level,
                     scope |-> run.request.scope,
                     concepts |-> concepts,
                     generation_metadata |->
                        [model |-> run.self.model,
                         prompt_version |-> PROMPT_VERSIONS["deck_system"],
                         tokens |-> actual_tokens,
                         timestamp |-> run.start_time,
                         rag_used |-> FALSE]]
    IN  [run EXCEPT !.pc = "done", !.llm_output = llm_output,
                    !.uuids_drawn = @ + n, !.returned = response]

\* variant of lines 222-235 that reports the default model and drops the scope
assemble_defaults(run, llm_output, actual_tokens, uuid_base) ==
    LET n == Len(llm_output.concepts)
        concepts == [i \in 1..n |-> Concept(llm_output.concepts[i], UUID(uuid_base + i))]
        response == [deck_id |-> run.deck_id,
                     topic |-> run.request.topic,
                     difficulty_level |-> run.request.difficulty_level,
                     scope |-> None,
                     concepts |-> concepts,
                     generation_metadata |->
                        [model |-> DEFAULT_MODEL,
                         prompt_version |-> PROMPT_VERSIONS["deck_system"],
                         tokens |-> actual_tokens,
                         timestamp |-> run.start_time,
                         rag_used |-> FALSE]]
    IN  [run EXCEPT !.pc = "done", !.llm_output = llm_output,
                    !.uuids_drawn = @ + n, !.returned = response]

\* variant of lines 211-246 without the validation that Concept(...) and
\* DeckResponse(...) perform
assemble_unvalidated(run, llm_output, actual_tokens, uuid_base) ==
    LET n == Len(llm_output.concepts)
        concepts == [i \in 1..n |-> Concept(llm_output.concepts[i], UUID(uuid_base + i))]
        response == [deck_id |-> run.deck_id,
                     topic |-> run.request.topic,
                     difficulty_level |-> run.request.difficulty_level,
                     scope |-> run.request.scope,
                     concepts |-> concepts,
                     generation_metadata |->
                        [model |-> run.self.model,
                         prompt_version |-> PROMPT_VERSIONS["deck_system"],
                         tokens |-> actual_tokens,
                         timestamp |-> run.start_time,
                         rag_used |-> FALSE]]
    IN  [run EXCEPT !.pc = "done", !.llm_output = llm_output,
                    !.uuids_drawn = @ + n, !.returned = response]

\* lines 211-246: promote the accepted output and assemble the response.
\* Concept(...) is built for one concept after the other and raises at the
\* first that breaks a rule; DeckResponse(...) then checks the number of
\* concepts
assemble(run, llm_output, actual_tokens, uuid_base) ==
    IF llm_output = None
    THEN handle_exception(run,
            [tag |-> "Exception", type |-> "AttributeError",
             msg |-> "'NoneType' object has no attribute 'concepts'", len |-> 1])
    ELSE
    LET n == Len(llm_output.concepts)
        bad == {i \in 1..n : ~ValidConcept(llm_output.concepts[i])}
        first_bad == CHOOSE i \in bad : \A j \in bad : i <= j
        concepts == [i \in 1..n |-> Concept(llm_output.concepts[i], UUID(uuid_base + i))]
        response == [deck_id |-> run.deck_id,
                     topic |-> run.request.topic,
                     difficulty_level |-> run.request.difficulty_level,
                     scope |-> run.request.scope,
                     concepts |-> concepts,
                     generation_metadata |->
                        [model |-> run.self.model,
                         prompt_version |-> PROMPT_VERSIONS["deck_system"],
                         tokens |-> actual_tokens,
                         timestamp |-> run.start_time,
                         rag_used |-> FALSE]]
    IN  IF bad # {}
        THEN handle_exception(
                [run EXCEPT !.llm_output = llm_output, !.uuids_drawn = @ + (first_bad - 1)],
                ValidationError(ConceptErrors(llm_output.concepts[first_bad])))
        ELSE IF ~ValidConceptCount(n)
        THEN handle_exception(
                [run EXCEPT !.llm_output = llm_output, !.uuids_drawn = @ + n],
                ValidationError(<<ConceptCountError(n)>>))
        ELSE [run EXCEPT !.pc = "done", !.llm_output = llm_output,
                         !.uuids_drawn = @ + n, !.returned = response]

\* _repair_once up to its await (lines 111-138), called as in lines 178-183
repair_once(run) ==
    LET repair_user_prompt ==
            [tag |-> "prompt", template |-> "repair",
             base_system_prompt |-> run.system_prompt,
             base_user_prompt |-> run.user_prompt,
             parsing_error |-> as_text(run.parsing_error),
             schema_json |-> schema_json,
             raw_output |-> as_text(Getattr(run.raw_message, "content", run.raw_message))]
        messages == <<[role |-> "system",
                        text |-> [tag |-> "prompt", template |-> "repair_system_prompt"]],
                      [role |-> "human", text |-> repair_user_prompt]>>
    IN  [run EXCEPT !.pc = "repair",
                    !.sent = Append(@, messages),
                    !.repair_count = @ + 1,
                    !.ainvoke_count = @ + 1]

\* variant of lines 188-198 with the two error texts exchanged
repair_failure_details_swapped(parsing_error, repair_error) ==
    [validation_errors |->
        <<[field |-> "response",
           message |-> "Deck output failed schema validation after repair attempt.",
           type |-> "schema_validation_failed"]>>,
     parsing_error |-> as_text(repair_error),
     repair_error |-> as_text(parsing_error)]

\* the details of lines 188-198
repair_failure_details(parsing_error, repair_error) ==
    [validation_errors |->
        <<[field |-> "response",
           message |-> "Deck output failed schema validation after repair attempt.",
           type |-> "schema_validation_failed"]>>,
     parsing_error |-> as_text(parsing_error),
     repair_error |-> as_text(repair_error)]

\* variant of lines 169-246 that gives up after the primary call
after_primary_no_repair(run, parsed, raw, err, uuid_base) ==
    LET r1 == [run EXCEPT !.llm_output = parsed, !.raw_message = raw,
                          !.parsing_error = err,
                          !.answers = Append(@, [parsed |-> parsed, raw |-> raw, error |-> err])]
        tokens == token_usage_from_raw(raw)
    IN  IF IsException(tokens) THEN handle_exception(r1, tokens)
        ELSE LET r2 == [r1 EXCEPT !.actual_tokens = tokens]
             IN  IF needs_repair(parsed, err)
                 THEN handle_exception(r2,
                        SchemaValidationFailedError(
                            "Deck output failed schema validation.",
                            repair_failure_details(err, None)))
                 ELSE assemble(r2, parsed, tokens, uuid_base)

\* variant of lines 172-183 that, instead of calling the capability again,
\* waits for something nothing delivers
after_primary_parked(run, parsed, raw, err, uuid_base) ==
    LET r1 == [run EXCEPT !.llm_output = parsed, !.raw_message = raw,
                          !.parsing_error = err,
                          !.answers = Append(@, [parsed |-> parsed, raw |-> raw, error |-> err])]
        tokens == token_usage_from_raw(raw)
    IN  IF IsException(tokens) THEN handle_exception(r1, tokens)
        ELSE LET r2 == [r1 EXCEPT !.actual_tokens = tokens]
             IN  IF needs_repair(parsed, err)
                 THEN [r2 EXCEPT !.pc = "parked"]
                 ELSE assemble(r2, parsed, tokens, uuid_base)

\* generate_deck from the return of the primary call to its next await or
\* its end (lines 169-246)
after_primary(run, parsed, raw, err, uuid_base) ==
    LET r1 == [run EXCEPT !.llm_output = parsed, !.raw_message = raw,
                          !.parsing_error = err,
                          !.answers = Append(@, [parsed |-> parsed, raw |-> raw, error |-> err])]
        tokens == token_usage_from_raw(raw)
    IN  IF IsException(tokens) THEN handle_exception(r1, tokens)
        ELSE LET r2 == [r1 EXCEPT !.actual_tokens = tokens]
             IN  IF needs_repair(parsed, err)
                 THEN repair_once(r2)
                 ELSE assemble(r2, parsed, tokens, uuid_base)

\* variant of lines 178-246 that repairs again after a failed repair
after_repair_retry(run, parsed, raw, err, uuid_base) ==
    LET r1 == [run EXCEPT !.repaired_output = parsed, !.repaired_raw = raw,
                          !.repair_error = err,
                          !.answers = Append(@, [parsed |-> parsed, raw |-> raw, error |-> err])]
        repair_tokens == token_usage_from_raw(raw)
        tokens == IF IsException(repair_tokens) THEN repair_tokens
                  ELSE combine_tokens(run.actual_tokens, repair_tokens)
    IN  IF IsException(tokens) THEN handle_exception(r1, tokens)
        ELSE LET r2 == [r1 EXCEPT !.actual_tokens = tokens]
             IN  IF repair_failed(parsed, err)
                 THEN repair_once([r2 EXCEPT !.raw_message = raw, !.parsing_error = err])
                 ELSE assemble(r2, parsed, tokens, uuid_base)

\* variant of lines 178-246 without line 208 (llm_output = repaired_output)
after_repair_keep_primary(run, parsed, raw, err, uuid_base) ==
    LET r1 == [run EXCEPT !.repaired_output = parsed, !.repaired_raw = raw,
                          !.repair_error = err,
                          !.answers = Append(@, [parsed |-> parsed, raw |-> raw, error |-> err])]
        repair_tokens == token_usage_from_raw(raw)
        tokens == IF IsException(repair_tokens) THEN repair_tokens
                  ELSE combine_tokens(run.actual_tokens, repair_tokens)
    IN  IF IsException(tokens) THEN handle_exception(r1, tokens)
        ELSE LET r2 == [r1 EXCEPT !.actual_tokens = tokens]
             IN  IF repair_failed(parsed, err)
                 THEN handle_exception(r2,
                        SchemaValidationFailedError(
                            "Deck output failed schema validation.",
                            repair_failure_details(run.parsing_error, err)))
                 ELSE assemble(r2, run.llm_output, tokens, uuid_base)

\* variant of lines 178-246 without line 185 (the repair usage replaces the total)
after_repair_tokens_only(run, parsed, raw, err, uuid_base) ==
    LET r1 == [run EXCEPT !.repaired_output = parsed, !.repaired_raw = raw,
                          !.repair_error = err,
                          !.answers = Append(@, [parsed |-> parsed, raw |-> raw, error |-> err])]
        tokens == token_usage_from_raw(raw)
    IN  IF IsException(tokens) THEN handle_exception(r1, tokens)
        ELSE LET r2 == [r1 EXCEPT !.actual_tokens = tokens]
             IN  IF repair_failed(parsed, err)
                 THEN handle_exception(r2,
                        SchemaValidationFailedError(
                            "Deck output failed schema validation.",
                            repair_failure_details(run.parsing_error, err)))
                 ELSE assemble(r2, parsed, tokens, uuid_base)

\* generate_deck from the return of the repair call to its end (lines 178-246)
after_repair(run, parsed, raw, err, uuid_base) ==
    LET r1 == [run EXCEPT !.repaired_output = parsed, !.repaired_raw = raw,
                          !.repair_error = err,
                          !.answers = Append(@, [parsed |-> parsed, raw |-> raw, error |-> err])]
        repair_tokens == token_usage_from_raw(raw)
        tokens == IF IsException(repair_tokens) THEN repair_tokens
                  ELSE combine_tokens(run.actual_tokens, repair_tokens)
    IN  IF IsException(tokens) THEN handle_exception(r1, tokens)
        ELSE LET r2 == [r1 EXCEPT !.actual_tokens = tokens]
             IN  IF repair_failed(parsed, err)
                 THEN handle_exception(r2,
                        SchemaValidationFailedError(
                            "Deck output failed schema validation.",
                            repair_failure_details(run.parsing_error, err)))
                 ELSE assemble(r2, parsed, tokens, uuid_base)

\* number of identifiers a step has drawn
Drawn(old, new) == new.uuids_drawn - old.uuids_drawn

(***************************************************************************)
(* The client of the process (get_llm_client) and the environment          *)
(* variables its constructor reads.                                        *)
(***************************************************************************)
\* os.getenv(name, default) on the environment env
getenv(env, name, default) == IF name \in DOMAIN env THEN env[name] ELSE default

\* LLMClient() (lines 46-66): raises ValueError when OPENAI_API_KEY is unset
\* or empty, else builds the client for the model named by OPENAI_MODEL; the
\* capability it wraps answers as the "small" one
LLMClient_init(env) ==
    IF getenv(env, "OPENAI_API_KEY", "") = ""
    THEN [tag |-> "Exception", type |-> "ValueError",
          msg |-> "OPENAI_API_KEY environment variable not set", len |-> 1]
    ELSE LLMClient(getenv(env, "OPENAI_MODEL", DEFAULT_MODEL), "small")

\* variant of lines 276-281 without the test of line 279: every call
\* constructs a client
get_llm_client_fresh(client, env) ==
    LET made == LLMClient_init(env)
    IN  [llm_client |-> IF IsException(made) THEN client ELSE made,
         result |-> made,
         constructs |-> TRUE]

\* get_llm_client (lines 276-281) called when the global _llm_client holds
\* client: the global after the call, what the call returns or raises, and
\* whether it ran the constructor
get_llm_client(client, env) ==
    IF client = None
    THEN LET made == LLMClient_init(env)
         IN  [llm_client |-> IF IsException(made) THEN None ELSE made,
              result |-> made,
              constructs |-> TRUE]
    ELSE [llm_client |-> client, result |-> client, constructs |-> FALSE]

(***************************************************************************)
(* The HTTP layer (backend/app/main.py, backend/app/api/v1/routes_deck.py).*)
(* The body of a POST is validated as DeckGenerateRequest before the route *)
(* handler runs.  A raw string is the sequence of its characters.          *)
(***************************************************************************)
\* no HTTP request has arrived
NoHttp ==
    [pc |-> "none", header |-> None, body |-> None, request_id |-> None,
     deck_id |-> None, response |-> None]

\* the tables decks and cards, as committed
EmptyDb == [decks |-> {}, cards |-> {}]

Whitespace == {" ", "\t"}

\* the whitespace normalization of topic and scope, " ".join(value.split()):
\* the characters of the words are kept; of every run of whitespace that has
\* a word before it and a word after it, the first character is kept and
\* becomes a space; everything else is dropped
normalize_whitespace(value) ==
    LET n == Len(value)
        InWord(i) == value[i] \notin Whitespace
        Kept == {i \in 1..n : \/ InWord(i)
                              \/ /\ i > 1
                                 /\ InWord(i - 1)
                                 /\ \E j \in (i + 1)..n : InWord(j)}
        Rank == [i \in 1..n |-> Cardinality({j \in Kept : j <= i})]
    IN  [k \in 1..Cardinality(Kept) |->
            LET i == CHOOSE i \in Kept : Rank[i] = k
            IN  IF InWord(i) THEN value[i] ELSE " "]

\* the characters of a str, spelled out
RECURSIVE JoinChars(_)
JoinChars(chars) ==
    IF chars = <<>> THEN ""
    ELSE IF Len(chars) = 1 THEN chars[1]
    ELSE JoinChars(SubSeq(chars, 1, Len(chars) \div 2))
            \o JoinChars(SubSeq(chars, Len(chars) \div 2 + 1, Len(chars)))

ToText(chars) == Text(JoinChars(chars), Len(chars))

\* the limits of DeckGenerateRequest
TopicMaxLen == 200

DefaultMaxConcepts == 5

Difficulties == {"beginner", "intermediate", "advanced"}

\* the values of a JSON body: a string by its characters, a keyword, a number
JStr(chars) == [tag |-> "json", chars |-> chars]

JWord(word) == [tag |-> "json", word |-> word]

JInt(n) == [tag |-> "json", int |-> n]

\* the errors of one field: none or one
FieldError(broken, field, type, msg) ==
    IF broken THEN <<[loc |-> <<"body", field>>, msg |-> msg, type |-> type]>> ELSE <<>>

\* DeckGenerateRequest.model_validate(body) as FastAPI runs it: the errors
\* found, and the request built when there are none; absent fields take their
\* defaults
validate_request(body) ==
    LET topic == normalize_whitespace(body.topic.chars)
        scope == IF body.scope = None THEN <<>> ELSE normalize_whitespace(body.scope.chars)
        difficulty_level == IF body.difficulty_level = None THEN "beginner"
                            ELSE body.difficulty_level.word
        max_concepts == IF body.max_concepts = None THEN DefaultMaxConcepts
                        ELSE body.max_concepts.int
        errors ==
            FieldError(topic = <<>>, "topic", "string_too_short",
                       "String should have at least 1 character")
            \o FieldError(Len(topic) > TopicMaxLen, "topic", "string_too_long",
                          "String should have at most 200 characters")
            \o FieldError(difficulty_level \notin Difficulties, "difficulty_level",
                          "enum", "Input should be 'beginner', 'intermediate' or 'advanced'")
            \o FieldError(max_concepts < MinConcepts, "max_concepts",
                          "greater_than_equal", "Input should be greater than or equal to 3")
            \o FieldError(max_concepts > MaxConcepts, "max_concepts",
                          "less_than_equal", "Input should be less than or equal to 7")
            \o FieldError(Len(scope) > TopicMaxLen, "scope", "string_too_long",
                          "String should have at most 200 characters")
    IN  [errors |-> errors,
         request |-> [topic |-> ToText(topic),
                      difficulty_level |-> difficulty_level,
                      max_concepts |-> max_concepts,
                      scope |-> IF body.scope = None THEN None ELSE ToText(scope)]]

\* the entry handle_validation_error builds for one error (main.py 70-78)
RequestErrorEntry(err) ==
    [field |-> IF JoinDot(err.loc) = "" THEN "request" ELSE JoinDot(err.loc),
     message |-> err.msg,
     type |-> err.type]

\* variant of main.py 65-93 that answers as FastAPI does without the handler
handle_validation_error_default(errors, request_id) ==
    [status_code |-> 422,
     content |-> [detail |-> errors]]

\* handle_validation_error (main.py 65-93)
handle_validation_error(errors, request_id) ==
    [status_code |-> 400,
     content |->
        [error |->
            [code |-> "INVALID_INPUT",
             message |-> "Request validation failed.",
             request_id |-> request_id,
             retryable |-> FALSE,
             details |-> [validation_errors |->
                            [i \in 1..Len(errors) |-> RequestErrorEntry(errors[i])]],
             recovery_action |-> "Fix invalid fields and try again."]]]

\* error_response (routes_deck.py 23-46): details is left out when None
error_response(code, message, retryable, status_code, details, recovery_action, request_id) ==
    LET payload == [code |-> code, message |-> message,
                    request_id |-> request_id, retryable |-> retryable,
                    recovery_action |-> recovery_action]
    IN  [status_code |-> status_code,
         content |-> [error |-> IF details = None THEN payload
                                ELSE payload @@ [details |-> details]]]

\* RequestIDMiddleware.dispatch after call_next returned (request_id.py
\* 39-52): the response leaves with the request id as its X-Request-ID header
dispatch(response, request_id) ==
    [status_code |-> response.status_code,
     content |-> response.content,
     headers |-> [X_Request_ID |-> request_id]]

\* variant of lines 106-172 that answers a provider failure as a failure of
\* the service itself
failure_response_internal(e, request_id) ==
    IF e.type = "SchemaValidationFailedError"
    THEN error_response("SCHEMA_VALIDATION_FAILED",
            "Deck output failed schema validation.", FALSE, 502,
            IF e.details = <<>> THEN None ELSE e.details,
            "Try a narrower topic and regenerate the deck.", request_id)
    ELSE error_response("INTERNAL_ERROR", "Failed to generate deck", FALSE, 500, None,
            "Retry the request. If this continues, contact support.", request_id)

\* variant of lines 106-119 that leaves the details of the exception out
failure_response_no_details(e, request_id) ==
    IF e.type = "SchemaValidationFailedError"
    THEN error_response("SCHEMA_VALIDATION_FAILED",
            "Deck output failed schema validation.", FALSE, 502, None,
            "Try a narrower topic and regenerate the deck.", request_id)
    ELSE error_response("LLM_PROVIDER_ERROR", "Failed to generate deck", TRUE, 502, None,
            "Retry in a few seconds.", request_id)

\* the except clauses of the route for an exception that left the try before
\* anything was added to the session (routes_deck.py 106-119, 159-172):
\* SchemaValidationFailedError is answered with its details (e.details or
\* None), every other Exception as a provider failure
failure_response(e, request_id) ==
    IF e.type = "SchemaValidationFailedError"
    THEN error_response("SCHEMA_VALIDATION_FAILED",
            "Deck output failed schema validation.", FALSE, 502,
            IF e.details = <<>> THEN None ELSE e.details,
            "Try a narrower topic and regenerate the deck.", request_id)
    ELSE error_response("LLM_PROVIDER_ERROR", "Failed to generate deck", TRUE, 502, None,
            "Retry in a few seconds.", request_id)

(***************************************************************************)
(* Actions.                                                                *)
(***************************************************************************)
Idle == [op |-> "idle"]

\* datetime.now(UTC) read when the clock shows t
datetime(t) == [tag |-> "datetime", t |-> t]

\* the clock counts the events of the program in their order; a step that
\* resumes a run with the outcome of its call at t issues the next call or
\* ends the run at t + 1
Clocked(old, new, t) ==
    [new EXCEPT !.answered_at = Append(@, t),
                !.sent_at = IF Len(new.sent) > Len(old.sent) THEN Append(@, t + 1) ELSE @,
                !.ended_at = IF new.pc = "done" THEN datetime(t + 1) ELSE @]

\* variant of lines 161-169 that reads the clock after issuing the call
Start_late_clock(r) ==
    /\ runs[r].pc = "start"
    /\ LET run == runs[r]
           prompts == get_deck_prompts(run.request.topic, run.request.difficulty_level,
                                       run.request.max_concepts, run.request.scope)
           messages == <<[role |-> "system", text |-> prompts[1]],
                         [role |-> "human", text |-> prompts[2]]>>
       IN  runs' = [runs EXCEPT ![r] =
                      [run EXCEPT !.pc = "primary",
                                  !.system_prompt = prompts[1],
                                  !.user_prompt = prompts[2],
                                  !.start_time = datetime(now + 1),
                                  !.sent = Append(@, messages),
                                  !.sent_at = Append(@, now),
                                  !.ainvoke_count = @ + 1]]
    /\ now' = now + 2
    /\ UNCHANGED <<uuid_next, calc, http, db, llm_client, environ, client_calls>>

\* variant of lines 169-183 that issues the repair call together with the
\* primary call
Start_both_calls(r) ==
    /\ runs[r].pc = "start"
    /\ LET run == runs[r]
           prompts == get_deck_prompts(run.request.topic, run.request.difficulty_level,
                                       run.request.max_concepts, run.request.scope)
           messages == <<[role |-> "system", text |-> prompts[1]],
                         [role |-> "human", text |-> prompts[2]]>>
           started == [run EXCEPT !.pc = "primary",
                                  !.system_prompt = prompts[1],
                                  !.user_prompt = prompts[2],
                                  !.start_time = datetime(now),
                                  !.sent = Append(@, messages),
                                  !.sent_at = Append(@, now + 1),
                                  !.ainvoke_count = @ + 1]
       IN  runs' = [runs EXCEPT ![r] =
                      [repair_once(started) EXCEPT !.pc = "primary",
                                                   !.sent_at = Append(@, now + 1)]]
    /\ now' = now + 2
    /\ UNCHANGED <<uuid_next, calc, http, db, llm_client, environ, client_calls>>

\* generate_deck is called: prompts, start time, primary call issued
\* (lines 147-169); the clock is read at now, the call leaves at now + 1
Start(r) ==
    /\ runs[r].pc = "start"
    /\ LET run == runs[r]
           prompts == get_deck_prompts(run.request.topic, run.request.difficulty_level,
                                       run.request.max_concepts, run.request.scope)
           messages == <<[role |-> "system", text |-> prompts[1]],
                         [role |-> "human", text |-> prompts[2]]>>
       IN  runs' = [runs EXCEPT ![r] =
                      [run EXCEPT !.pc = "primary",
                                  !.system_prompt = prompts[1],
                                  !.user_prompt = prompts[2],
                                  !.start_time = datetime(now),
                                  !.sent = Append(@, messages),
                                  !.sent_at = Append(@, now + 1),
                                  !.ainvoke_count = @ + 1]]
    /\ now' = now + 2
    /\ UNCHANGED <<uuid_next, calc, http, db, llm_client, environ, client_calls>>

\* the primary call returns {parsed, raw, parsing_error}
PrimaryReturns(r) ==
    /\ runs[r].pc = "primary"
    /\ \E parsed \in ParsedAnswers(runs[r].self.structured_llm),
          raw \in RawAnswers(runs[r].self.structured_llm),
          err \in ErrorAnswers(runs[r].self.structured_llm) :
          LET new == Clocked(runs[r], after_primary(runs[r], parsed, raw, err, uuid_next), now)
          IN  /\ runs' = [runs EXCEPT ![r] = new]
              /\ uuid_next' = uuid_next + Drawn(runs[r], new)
    /\ now' = now + 2
    /\ UNCHANGED <<calc, http, db, llm_client, environ, client_calls>>

\* the primary call raises
PrimaryRaises(r) ==
    /\ runs[r].pc = "primary"
    /\ \E e \in RaisedBy(runs[r].self.structured_llm) :
          runs' = [runs EXCEPT ![r] =
                     Clocked(runs[r], handle_exception([runs[r] EXCEPT !.thrown = e], e), now)]
    /\ now' = now + 2
    /\ UNCHANGED <<uuid_next, calc, http, db, llm_client, environ, client_calls>>

\* variant of lines 184-185 in which the usage is accumulated on the shared
\* client instead of in a local of the run
RepairReturns_shared_usage(r) ==
    /\ runs[r].pc = "repair"
    /\ \E parsed \in ParsedAnswers(runs[r].self.structured_llm),
          raw \in RawAnswers(runs[r].self.structured_llm),
          err \in ErrorAnswers(runs[r].self.structured_llm) :
          LET others == {o \in DOMAIN runs : o # r /\ runs[o].actual_tokens # None}
              seen == IF others = {} THEN runs[r].actual_tokens
                      ELSE combine_tokens(runs[r].actual_tokens,
                                          runs[CHOOSE o \in others : TRUE].actual_tokens)
              new == Clocked(runs[r],
                             after_repair([runs[r] EXCEPT !.actual_tokens = seen],
                                          parsed, raw, err, uuid_next),
                             now)
          IN  /\ runs' = [runs EXCEPT ![r] = new]
              /\ uuid_next' = uuid_next + Drawn(runs[r], new)
    /\ now' = now + 2
    /\ UNCHANGED <<calc, http, db, llm_client, environ, client_calls>>

\* the repair call returns {parsed, raw, parsing_error}
RepairReturns(r) ==
    /\ runs[r].pc = "repair"
    /\ \E parsed \in ParsedAnswers(runs[r].self.structured_llm),
          raw \in RawAnswers(runs[r].self.structured_llm),
          err \in ErrorAnswers(runs[r].self.structured_llm) :
          LET new == Clocked(runs[r], after_repair(runs[r], parsed, raw, err, uuid_next), now)
          IN  /\ runs' = [runs EXCEPT ![r] = new]
              /\ uuid_next' = uuid_next + Drawn(runs[r], new)
    /\ now' = now + 2
    /\ UNCHANGED <<calc, http, db, llm_client, environ, client_calls>>

\* the repair call raises
RepairRaises(r) ==
    /\ runs[r].pc = "repair"
    /\ \E e \in RaisedBy(runs[r].self.structured_llm) :
          runs' = [runs EXCEPT ![r] =
                     Clocked(runs[r], handle_exception([runs[r] EXCEPT !.thrown = e], e), now)]
    /\ now' = now + 2
    /\ UNCHANGED <<uuid_next, calc, http, db, llm_client, environ, client_calls>>

\* the clients a run can be made on: the typed capability, any model name
Clients == {LLMClient(m, "typed") : m \in Models}

\* the calls of generate_deck that are explored: each request on one client,
\* the clients taken in turn
Calls ==
    {call \in [request : Requests, client : Clients] :
        (call.request.scope = None) = (call.client.model = DEFAULT_MODEL)}

\* one generate_deck call per run id, not yet started
NewRuns ==
    {[r \in RunIds |-> [NewRun(call.request, DeckIds[r]) EXCEPT !.self = call.client]] :
        call \in Calls}

Init ==
    /\ runs \in NewRuns
    /\ now = 0
    /\ uuid_next = 0
    /\ calc = Idle
    /\ http = [r \in RunIds |-> NoHttp]
    /\ db = EmptyDb
    /\ llm_client = None
    /\ environ = NoEnviron
    /\ client_calls = <<>>

Next ==
    \/ \E r \in DOMAIN runs : Start(r)
    \/ \E r \in DOMAIN runs : PrimaryReturns(r)
    \/ \E r \in DOMAIN runs : PrimaryRaises(r)
    \/ \E r \in DOMAIN runs : RepairReturns(r)
    \/ \E r \in DOMAIN runs : RepairRaises(r)

Spec == Init /\ [][Next]_vars

(***************************************************************************)
(* generate_deck on a client whose structured capability is a stand-in     *)
(* that does not validate what it hands out as "parsed".                   *)
(***************************************************************************)
UntypedRuns ==
    {[r \in RunIds |->
        [NewRun(call.request, DeckIds[r])
            EXCEPT !.self = LLMClient(call.client.model, "untyped")]] : call \in Calls}

InitUntyped ==
    /\ runs \in UntypedRuns
    /\ now = 0
    /\ uuid_next = 0
    /\ calc = Idle
    /\ http = [r \in RunIds |-> NoHttp]
    /\ db = EmptyDb
    /\ llm_client = None
    /\ environ = NoEnviron
    /\ client_calls = <<>>

SpecUntyped == InitUntyped /\ [][Next]_vars

(***************************************************************************)
(* The same runs under the scheduling the code relies on: the event loop   *)
(* runs a coroutine that is ready (the steps of generate_deck itself), and *)
(* every call of the capability that is awaited returns or raises.         *)
(***************************************************************************)
Fairness ==
    \A r \in RunIds :
        /\ WF_vars(Start(r))
        /\ WF_vars(PrimaryReturns(r) \/ PrimaryRaises(r))
        /\ WF_vars(RepairReturns(r) \/ RepairRaises(r))

SpecLive == InitUntyped /\ [][Next]_vars /\ Fairness

(***************************************************************************)
(* POST /v1/deck/generate.  The request id middleware, the validation of   *)
(* the body and the route handler up to its await on generate_deck are one *)
(* step; the handler resumes when the run has ended.                       *)
(***************************************************************************)
\* longest raw string that is enumerated in full
MaxStrLen == 3

Chars == {"a", " ", "\t"}

Strings == UNION {[1..k -> Chars] : k \in 0..MaxStrLen}

\* raw strings that hold at least one word
Worded == {s \in Strings : \E i \in 1..Len(s) : s[i] \notin Whitespace}

Body(topic, difficulty_level, max_concepts, scope) ==
    [topic |-> topic, difficulty_level |-> difficulty_level,
     max_concepts |-> max_concepts, scope |-> scope]

\* the JSON bodies that are posted: every short topic, an oversized topic,
\* every difficulty and an unknown one, max_concepts around its limits, every
\* short scope that holds a word
Bodies ==
    {Body(JStr(s), None, None, None) : s \in Strings}
    \cup {Body(JStr([i \in 1..(TopicMaxLen + 1) |-> "a"]), JWord("beginner"), None, None)}
    \cup {Body(JStr(<<"a">>), JWord(dl), None, None) : dl \in Difficulties \cup {"expert"}}
    \cup {Body(JStr(<<"a">>), JWord("beginner"), JInt(n), None) :
            n \in {MinConcepts - 1, MinConcepts, MaxConcepts, MaxConcepts + 1}}
    \cup {Body(JStr(<<"a", " ", " ", "a">>), JWord("advanced"), JInt(MinConcepts), JStr(s)) :
            s \in Worded}

\* the X-Request-ID header of a request: absent or given
RequestIdHeaders == {None, Text("req-1", 5)}

\* get_llm_client(): the process-wide client
RouteClient == LLMClient(DEFAULT_MODEL, "small")

\* generate_deck has not been called
IdleRun == [NewRun(None, None) EXCEPT !.pc = "idle"]

\* str(uuid)
uuid_str(u) == [tag |-> "str", of |-> "uuid", len |-> 36, n |-> u.n]

\* variant of request_id.py 24 that ignores the header
request_id_of_generated(header, uuid_base) == uuid_str(UUID(uuid_base + 1))

\* RequestIDMiddleware.dispatch up to call_next (request_id.py 24-25):
\* request.headers.get("X-Request-ID", str(uuid.uuid4())); the default is
\* computed on every request, so an identifier is drawn in either case
request_id_of(header, uuid_base) ==
    IF header = None THEN uuid_str(UUID(uuid_base + 1)) ELSE header

\* a POST whose body fails validation: handle_validation_error answers, the
\* route handler is not entered
RejectPost(r, body, header) ==
    /\ http[r].pc = "none"
    /\ LET checked == validate_request(body)
           request_id == request_id_of(header, uuid_next)
       IN  /\ checked.errors # <<>>
           /\ http' = [http EXCEPT ![r] =
                         [pc |-> "responded", header |-> header, body |-> body, request_id |-> request_id,
                          deck_id |-> None,
                          response |-> dispatch(
                              handle_validation_error(checked.errors, request_id),
                              request_id)]]
           /\ uuid_next' = uuid_next + 1
    /\ now' = now + 1
    /\ UNCHANGED <<runs, calc, db, llm_client, environ, client_calls>>

PostRejected(r) ==
    \E body \in Bodies, header \in RequestIdHeaders : RejectPost(r, body, header)

\* variant of the route's parameter (routes_deck.py 57-60) that hands the
\* raw topic and scope to the handler
PostAccepted_raw(r) ==
    /\ http[r].pc = "none"
    /\ \E body \in Bodies, header \in RequestIdHeaders :
          LET checked == validate_request(body)
              request_id == request_id_of(header, uuid_next)
              deck_id == UUID(uuid_next + 2)
              request == [checked.request EXCEPT
                            !.topic = ToText(body.topic.chars),
                            !.scope = IF body.scope = None THEN None
                                      ELSE ToText(body.scope.chars)]
              got == get_llm_client(llm_client, environ)
          IN  /\ checked.errors = <<>>
              /\ llm_client' = got.llm_client
              /\ client_calls' = Append(client_calls,
                                        [constructs |-> got.constructs, result |-> got.result])
              /\ IF IsException(got.result)
                 THEN /\ http' = [http EXCEPT ![r] =
                                    [pc |-> "responded", header |-> header, body |-> body,
                                     request_id |-> request_id, deck_id |-> deck_id,
                                     response |-> dispatch(
                                         failure_response(got.result, request_id),
                                         request_id)]]
                      /\ runs' = runs
                 ELSE /\ http' = [http EXCEPT ![r] =
                                    [pc |-> "pending", header |-> header, body |-> body,
                                     request_id |-> request_id, deck_id |-> deck_id,
                                     response |-> None]]
                      /\ runs' = [runs EXCEPT ![r] =
                                    [NewRun(request, deck_id) EXCEPT !.self = got.result]]
              /\ uuid_next' = uuid_next + 2
    /\ now' = now + 1
    /\ UNCHANGED <<calc, db, environ>>

\* a POST whose body is valid: the handler draws the deck id, asks for the
\* client of the process and calls generate_deck on it; when the client
\* cannot be constructed the last except clause answers (routes_deck.py
\* 57-73, 159-172)
AcceptPost(r, body, header) ==
    /\ http[r].pc = "none"
    /\ LET checked == validate_request(body)
           request_id == request_id_of(header, uuid_next)
           deck_id == UUID(uuid_next + 2)
           got == get_llm_client(llm_client, environ)
       IN  /\ checked.errors = <<>>
           /\ llm_client' = got.llm_client
           /\ client_calls' = Append(client_calls,
                                     [constructs |-> got.constructs, result |-> got.result])
           /\ IF IsException(got.result)
              THEN /\ http' = [http EXCEPT ![r] =
                                 [pc |-> "responded", header |-> header, body |-> body,
                                  request_id |-> request_id, deck_id |-> deck_id,
                                  response |-> dispatch(
                                      failure_response(got.result, request_id),
                                      request_id)]]
                   /\ runs' = runs
              ELSE /\ http' = [http EXCEPT ![r] =
                                 [pc |-> "pending", header |-> header, body |-> body,
                                  request_id |-> request_id, deck_id |-> deck_id,
                                  response |-> None]]
                   /\ runs' = [runs EXCEPT ![r] =
                                 [NewRun(checked.request, deck_id) EXCEPT !.self = got.result]]
           /\ uuid_next' = uuid_next + 2
    /\ now' = now + 1
    /\ UNCHANGED <<calc, db, environ>>

PostAccepted(r) ==
    \E body \in Bodies, header \in RequestIdHeaders : AcceptPost(r, body, header)

\* variant of model_dump(mode="json") that writes a datetime as its date
json_of_date_only(v) ==
    IF v.tag = "UUID" THEN uuid_str(v)
    ELSE IF v.tag = "datetime" THEN [tag |-> "json-datetime", t |-> 0]
    ELSE v

\* str(uuid) and datetime.isoformat() as model_dump(mode="json") writes them
json_of(v) ==
    IF v.tag = "UUID" THEN uuid_str(v)
    ELSE IF v.tag = "datetime" THEN [tag |-> "json-datetime", t |-> v.t]
    ELSE v

\* Concept.model_dump(mode="json")
concept_dump(c) == [c EXCEPT !.card_id = json_of(c.card_id)]

\* DeckResponse.model_dump(mode="json")
model_dump(response) ==
    [response EXCEPT
        !.deck_id = json_of(response.deck_id),
        !.concepts = [i \in 1..Len(response.concepts) |-> concept_dump(response.concepts[i])],
        !.generation_metadata.timestamp = json_of(response.generation_metadata.timestamp)]

\* UUID(str) and datetime.fromisoformat(str) as model_validate reads them
python_of(v) ==
    IF v.tag = "str" THEN UUID(v.n)
    ELSE IF v.tag = "json-datetime" THEN datetime(v.t)
    ELSE v

\* a value is a DeckResponse and no exception
IsDeckResponse(v) == "deck_id" \in DOMAIN v

\* DeckResponse.model_validate(payload) (routes_deck.py 200): the payload is
\* parsed back and checked against the rules of DeckResponse
model_validate(payload) ==
    LET n == Len(payload.concepts)
        bad == {i \in 1..n : ~ValidConcept(payload.concepts[i])}
    IN  IF bad # {}
        THEN ValidationError(ConceptErrors(payload.concepts[CHOOSE i \in bad : TRUE]))
        ELSE IF ~ValidConceptCount(n)
        THEN ValidationError(<<ConceptCountError(n)>>)
        ELSE [payload EXCEPT
                !.deck_id = python_of(payload.deck_id),
                !.concepts = [i \in 1..n |->
                                [payload.concepts[i] EXCEPT
                                    !.card_id = python_of(payload.concepts[i].card_id)]],
                !.generation_metadata.timestamp =
                    python_of(payload.generation_metadata.timestamp)]

\* the rows the handler adds to its session (routes_deck.py 76-94)
deck_row(request, deck_id, response) ==
    [deck_id |-> deck_id,
     topic |-> request.topic,
     difficulty_level |-> request.difficulty_level,
     scope |-> request.scope,
     payload |-> model_dump(response),
     tokens_used |-> response.generation_metadata.tokens.total]

card_rows(deck_id, response) ==
    {[card_id |-> response.concepts[i].card_id,
      deck_id |-> deck_id,
      title |-> response.concepts[i].title,
      payload |-> concept_dump(response.concepts[i])] : i \in 1..Len(response.concepts)}

\* variant of lines 145-158 without the rollback, on a session that has
\* flushed the deck row before the commit fails
RespondCreated_no_rollback(r) ==
    /\ http[r].pc = "pending"
    /\ runs[r].pc = "done"
    /\ runs[r].returned # None
    /\ \E committed \in BOOLEAN :
          IF committed
          THEN /\ db' = [decks |-> db.decks \cup
                                    {deck_row(runs[r].request, http[r].deck_id, runs[r].returned)},
                         cards |-> db.cards \cup card_rows(http[r].deck_id, runs[r].returned)]
               /\ http' = [http EXCEPT ![r].pc = "responded",
                                       ![r].response =
                                           dispatch([status_code |-> 201,
                                                     content |-> runs[r].returned],
                                                    http[r].request_id)]
          ELSE /\ db' = [db EXCEPT !.decks = db.decks \cup
                                    {deck_row(runs[r].request, http[r].deck_id, runs[r].returned)}]
               /\ http' = [http EXCEPT ![r].pc = "responded",
                                       ![r].response =
                                           dispatch(
                                               error_response("INTERNAL_ERROR",
                                                   "Failed to persist deck.", TRUE, 500, None,
                                                   "Retry the request. If this continues, contact support.",
                                                   http[r].request_id),
                                               http[r].request_id)]
    /\ now' = now + 1
    /\ UNCHANGED <<runs, uuid_next, calc, llm_client, environ, client_calls>>

\* generate_deck has returned: the rows are added and committed; the commit
\* can fail with an SQLAlchemyError, which is rolled back (routes_deck.py
\* 75-104, 145-158)
RespondCreated(r) ==
    /\ http[r].pc = "pending"
    /\ runs[r].pc = "done"
    /\ runs[r].returned # None
    /\ \E committed \in BOOLEAN :
          IF committed
          THEN /\ db' = [decks |-> db.decks \cup
                                    {deck_row(runs[r].request, http[r].deck_id, runs[r].returned)},
                         cards |-> db.cards \cup card_rows(http[r].deck_id, runs[r].returned)]
               /\ http' = [http EXCEPT ![r].pc = "responded",
                                       ![r].response =
                                           dispatch([status_code |-> 201,
                                                     content |-> runs[r].returned],
                                                    http[r].request_id)]
          ELSE /\ db' = db
               /\ http' = [http EXCEPT ![r].pc = "responded",
                                       ![r].response =
                                           dispatch(
                                               error_response("INTERNAL_ERROR",
                                                   "Failed to persist deck.", TRUE, 500, None,
                                                   "Retry the request. If this continues, contact support.",
                                                   http[r].request_id),
                                               http[r].request_id)]
    /\ now' = now + 1
    /\ UNCHANGED <<runs, uuid_next, calc, llm_client, environ, client_calls>>

\* generate_deck has raised: the except clause that matches answers
\* (routes_deck.py 106-119, 159-172)
RespondFailed(r) ==
    /\ http[r].pc = "pending"
    /\ runs[r].pc = "done"
    /\ runs[r].raised # None
    /\ http' = [http EXCEPT ![r].pc = "responded",
                            ![r].response =
                                dispatch(failure_response(runs[r].raised, http[r].request_id),
                                         http[r].request_id)]
    /\ now' = now + 1
    /\ UNCHANGED <<runs, uuid_next, calc, db, llm_client, environ, client_calls>>

\* what the server sends when a handler raises an exception that nothing
\* handles: call_next re-raises it in dispatch (request_id.py 39), the header
\* of line 42 is never set
unhandled_error_response ==
    [status_code |-> 500,
     content |-> [text |-> "Internal Server Error"],
     headers |-> <<>>]

\* the deck ids a GET asks for: one that was never drawn and those of the
\* POSTs that have arrived
AskedDeckIds ==
    {UUID(0)} \cup {http[r].deck_id : r \in {q \in DOMAIN runs : http[q].deck_id # None}}

\* GET /v1/deck/{deck_id} (routes_deck.py 182-200); the query of line 188
\* can fail with an SQLAlchemyError, which get_deck does not handle
GetDeck(h) ==
    /\ http[h].pc = "none"
    /\ \E deck_id \in AskedDeckIds, header \in RequestIdHeaders, readable \in BOOLEAN :
          LET request_id == request_id_of(header, uuid_next)
              found == {d \in db.decks : d.deck_id = deck_id}
              deck == CHOOSE d \in found : TRUE
              response ==
                  IF ~readable THEN unhandled_error_response
                  ELSE IF found = {}
                  THEN dispatch(
                          error_response("NOT_FOUND",
                              [template |-> "Deck {deck_id} not found", deck_id |-> deck_id],
                              FALSE, 404, [deck_id |-> uuid_str(deck_id)],
                              "Verify the deck ID and try again.", request_id),
                          request_id)
                  ELSE IF ~IsDeckResponse(model_validate(deck.payload))
                  THEN unhandled_error_response
                  ELSE dispatch([status_code |-> 200,
                                 content |-> model_validate(deck.payload)],
                                request_id)
          IN  /\ http' = [http EXCEPT ![h] =
                            [pc |-> "responded", header |-> header, body |-> None, request_id |-> request_id,
                             deck_id |-> deck_id, response |-> response]]
              /\ uuid_next' = uuid_next + 1
    /\ now' = now + 1
    /\ UNCHANGED <<runs, calc, db, llm_client, environ, client_calls>>

\* the environment of a configured process
ServerEnviron == [OPENAI_API_KEY |-> "sk-test"]

InitRoute ==
    /\ runs = [r \in RunIds |-> IdleRun]
    /\ now = 0
    /\ uuid_next = 0
    /\ calc = Idle
    /\ http = [r \in RunIds |-> NoHttp]
    /\ db = EmptyDb
    /\ llm_client = None
    /\ environ = ServerEnviron
    /\ client_calls = <<>>

NextRoute ==
    \/ \E r \in DOMAIN runs : PostRejected(r)
    \/ \E r \in DOMAIN runs : PostAccepted(r)
    \/ \E r \in DOMAIN runs : Start(r)
    \/ \E r \in DOMAIN runs : PrimaryReturns(r)
    \/ \E r \in DOMAIN runs : PrimaryRaises(r)
    \/ \E r \in DOMAIN runs : RepairReturns(r)
    \/ \E r \in DOMAIN runs : RepairRaises(r)
    \/ \E r \in DOMAIN runs : RespondCreated(r)
    \/ \E r \in DOMAIN runs : RespondFailed(r)

SpecRoute == InitRoute /\ [][NextRoute]_vars

(***************************************************************************)
(* Two calls of generate_deck on the one client of the process             *)
(* (get_llm_client), interleaved at their awaits.                          *)
(***************************************************************************)
ConcRunIds == {"r1", "r2"}

\* the first run asks without a scope, the second with one
ConcRequest(r) ==
    IF r = "r1" THEN CHOOSE q \in Requests : q.scope = None
    ELSE CHOOSE q \in Requests : q.scope # None

InitConc ==
    /\ runs = [r \in ConcRunIds |->
                 [NewRun(ConcRequest(r), DeckIds[r]) EXCEPT !.self = RouteClient]]
    /\ now = 0
    /\ uuid_next = 0
    /\ calc = Idle
    /\ http = [r \in RunIds |-> NoHttp]
    /\ db = EmptyDb
    /\ llm_client = None
    /\ environ = NoEnviron
    /\ client_calls = <<>>

SpecConc == InitConc /\ [][Next]_vars

(***************************************************************************)
(* The server with one POST and one GET in flight at the same time: the    *)
(* GET is served before the POST, while its run waits for the capability,  *)
(* or after it.  The process starts without a client, with or without      *)
(* OPENAI_API_KEY.                                                         *)
(***************************************************************************)
GetIds == {"g1"}

\* the bodies posted to the server: a valid one and one with an empty topic
ServerBodies ==
    {Body(JStr(<<"a">>), None, None, None), Body(JStr(<<>>), None, None, None)}

InitServer ==
    /\ runs = [r \in RunIds |-> IdleRun]
    /\ now = 0
    /\ uuid_next = 0
    /\ calc = Idle
    /\ http = [h \in RunIds \cup GetIds |-> NoHttp]
    /\ db = EmptyDb
    /\ llm_client = None
    /\ environ \in {NoEnviron, ServerEnviron}
    /\ client_calls = <<>>

NextPosts ==
    \/ \E r \in DOMAIN runs, body \in ServerBodies, header \in RequestIdHeaders :
            RejectPost(r, body, header)
    \/ \E r \in DOMAIN runs, body \in ServerBodies, header \in RequestIdHeaders :
            AcceptPost(r, body, header)
    \/ \E r \in DOMAIN runs : Start(r)
    \/ \E r \in DOMAIN runs : PrimaryReturns(r)
    \/ \E r \in DOMAIN runs : PrimaryRaises(r)
    \/ \E r \in DOMAIN runs : RepairReturns(r)
    \/ \E r \in DOMAIN runs : RepairRaises(r)
    \/ \E r \in DOMAIN runs : RespondCreated(r)
    \/ \E r \in DOMAIN runs : RespondFailed(r)

NextServer ==
    \/ NextPosts
    \/ \E h \in DOMAIN http \ DOMAIN runs : GetDeck(h)

SpecServer == InitServer /\ [][NextServer]_vars

(***************************************************************************)
(* Two POSTs in flight at the same time, interleaved at the awaits of      *)
(* their runs, on a server that has been serving.                          *)
(***************************************************************************)
\* the client built before the requests that are followed here
ServerClient == LLMClient(DEFAULT_MODEL, "tiny")

\* the process runs without OPENAI_API_KEY and has no client, or with the
\* key and the client it built earlier
InitPosts ==
    /\ runs = [r \in ConcRunIds |-> IdleRun]
    /\ now = 0
    /\ uuid_next = 0
    /\ calc = Idle
    /\ http = [h \in ConcRunIds |-> NoHttp]
    /\ db = EmptyDb
    /\ \/ llm_client = None /\ environ = NoEnviron
       \/ llm_client = ServerClient /\ environ = ServerEnviron
    /\ client_calls = <<>>

SpecPosts == InitPosts /\ [][NextPosts]_vars

(***************************************************************************)
(* get_llm_client on its own: the process asks for the client again and    *)
(* again while its environment is changed between the calls.               *)
(***************************************************************************)
\* number of calls of get_llm_client that are followed
MaxCalls == 5

\* the environments of the process: no key, an empty key, a key, and a key
\* with another model
Environs ==
    {NoEnviron,
     [OPENAI_API_KEY |-> ""],
     ServerEnviron,
     [OPENAI_API_KEY |-> "sk-test", OPENAI_MODEL |-> "gpt-4o"]}

\* one call of get_llm_client (llm_client.py 276-281)
GetLlmClient ==
    /\ Len(client_calls) < MaxCalls
    /\ LET got == get_llm_client(llm_client, environ)
       IN  /\ llm_client' = got.llm_client
           /\ client_calls' = Append(client_calls,
                                     [constructs |-> got.constructs, result |-> got.result])
    /\ UNCHANGED <<runs, now, uuid_next, calc, http, db, environ>>

\* the environment of the process is changed
SetEnviron ==
    /\ \E env \in Environs : environ' = env
    /\ UNCHANGED <<runs, now, uuid_next, calc, http, db, llm_client, client_calls>>

InitSingleton ==
    /\ runs = [r \in RunIds |-> IdleRun]
    /\ now = 0
    /\ uuid_next = 0
    /\ calc = Idle
    /\ http = [h \in RunIds |-> NoHttp]
    /\ db = EmptyDb
    /\ llm_client = None
    /\ environ \in Environs
    /\ client_calls = <<>>

NextSingleton ==
    \/ GetLlmClient
    \/ SetEnviron

SpecSingleton == InitSingleton /\ [][NextSingleton]_vars

(***************************************************************************)
(* The token accountant on its own: _combine_tokens applied to three       *)
(* usages in both groupings and both orders, and _token_usage_from_raw     *)
(* applied to one raw response.                                            *)
(***************************************************************************)
TokenUsages == {TokenUsage(p, c, t) : p \in 0..MaxTok, c \in 0..MaxTok, t \in 0..MaxTok}

TokInit ==
    /\ runs \in NewRuns
    /\ now = 0
    /\ uuid_next = 0
    /\ http = [r \in RunIds |-> NoHttp]
    /\ db = EmptyDb
    /\ llm_client = None
    /\ environ = NoEnviron
    /\ client_calls = <<>>
    /\ calc \in {[op |-> "combine", a |-> a, b |-> b, c |-> c, out |-> None] :
                    a \in TokenUsages, b \in TokenUsages, c \in TokenUsages}
           \cup {[op |-> "extract", raw |-> raw, out |-> None] : raw \in RawMessages}

Combine ==
    /\ calc.op = "combine"
    /\ calc.out = None
    /\ calc' = [calc EXCEPT !.out =
                  [ab |-> combine_tokens(calc.a, calc.b),
                   ba |-> combine_tokens(calc.b, calc.a),
                   ab_c |-> combine_tokens(combine_tokens(calc.a, calc.b), calc.c),
                   a_bc |-> combine_tokens(calc.a, combine_tokens(calc.b, calc.c))]]
    /\ UNCHANGED <<runs, now, uuid_next, http, db, llm_client, environ, client_calls>>

Extract ==
    /\ calc.op = "extract"
    /\ calc.out = None
    /\ calc' = [calc EXCEPT !.out = token_usage_from_raw(calc.raw)]
    /\ UNCHANGED <<runs, now, uuid_next, http, db, llm_client, environ, client_calls>>

TokNext == Combine \/ Extract

SpecTokens == TokInit /\ [][TokNext]_vars

(***************************************************************************)
(* Vocabulary of the properties.                                           *)
(***************************************************************************)
\* an answer of the capability counts as a success
Succeeded(ans) == ans.parsed # None /\ ans.error = None

\* the counter a raw response reports under a key, 0 when it reports none
Reported(raw, k) ==
    IF raw = None THEN 0
    ELSE IF "usage_metadata" \notin raw.attrs THEN 0
    ELSE IF raw.usage_metadata = None THEN 0
    ELSE IF k \in DOMAIN raw.usage_metadata.items THEN raw.usage_metadata.items[k]
    ELSE 0

RECURSIVE SumReported(_, _)
SumReported(answers, k) ==
    IF answers = <<>> THEN 0
    ELSE Reported(answers[1].raw, k) + SumReported(Tail(answers), k)

\* the whole text of an error, "" for an absent one
FullText(e) == IF e = None THEN EmptyText ELSE Text(e.msg, e.len)

\* the first n characters of the text of an error
CutText(e, n) ==
    IF e = None THEN EmptyText
    ELSE Text(e.msg, IF e.len <= n THEN e.len ELSE n)

IsSchemaFailure(run) ==
    run.raised # None /\ run.raised.type = "SchemaValidationFailedError"

ResponseEntry ==
    [field |-> "response",
     message |-> "Deck output failed schema validation after repair attempt.",
     type |-> "schema_validation_failed"]

\* the i-th concept of a response carries the content of the i-th LLM concept
SameContent(concepts, llm_concepts) ==
    /\ Len(concepts) = Len(llm_concepts)
    /\ \A i \in 1..Len(concepts) :
          /\ concepts[i].title = llm_concepts[i].title
          /\ concepts[i].bullets = llm_concepts[i].bullets
          /\ concepts[i].example_possible = llm_concepts[i].example_possible
          /\ concepts[i].example_hint = llm_concepts[i].example_hint

(***************************************************************************)
(* C1: in every run of generate_deck the capability is invoked at most     *)
(* twice, one primary call and at most one repair call; once the repair    *)
(* call has been answered the run is over, whatever the answer was.        *)
(***************************************************************************)
C1_AtMostOneRepair ==
    \A r \in RunIds :
        /\ runs[r].ainvoke_count <= 2
        /\ runs[r].repair_count <= 1
        /\ Len(runs[r].sent) = runs[r].ainvoke_count
        /\ Len(runs[r].answers) = 2 => runs[r].pc = "done" /\ runs[r].ainvoke_count = 2

C1_Witness ==
    \E r \in RunIds :
        /\ Len(runs[r].answers) = 2
        /\ ~Succeeded(runs[r].answers[2])
        /\ runs[r].pc = "done"
        /\ runs[r].repair_count = 1

(***************************************************************************)
(* C2: when the primary call returns a parsed output and no parsing error, *)
(* the run makes no repair call and invokes the capability exactly once.   *)
(***************************************************************************)
C2_NoRepairAfterSuccess ==
    \A r \in RunIds :
        (Len(runs[r].answers) >= 1 /\ Succeeded(runs[r].answers[1]))
            => /\ runs[r].repair_count = 0
               /\ runs[r].ainvoke_count = 1
               /\ Len(runs[r].sent) = 1
               /\ runs[r].pc = "done"

C2_Witness ==
    \E r \in RunIds :
        /\ Len(runs[r].answers) = 1
        /\ Succeeded(runs[r].answers[1])
        /\ runs[r].returned # None
        /\ runs[r].repair_count = 0

(***************************************************************************)
(* C3: when the primary call fails parsing/validation and the repair call  *)
(* returns a parsed output with no error, generate_deck returns a          *)
(* DeckResponse, raises nothing, builds the concepts from the repaired     *)
(* output, and has made exactly one repair call.                           *)
(***************************************************************************)
C3_RepairAdopted ==
    \A r \in RunIds :
        (/\ Len(runs[r].answers) = 2
         /\ ~Succeeded(runs[r].answers[1])
         /\ Succeeded(runs[r].answers[2]))
            => /\ runs[r].pc = "done"
               /\ runs[r].raised = None
               /\ runs[r].returned # None
               /\ SameContent(runs[r].returned.concepts, runs[r].answers[2].parsed.concepts)
               /\ runs[r].repair_count = 1

\* the primary call delivered an output together with an error, and the
\* repair call delivered a different output
C3_Witness ==
    \E r \in RunIds :
        /\ Len(runs[r].answers) = 2
        /\ runs[r].answers[1].parsed # None
        /\ runs[r].answers[1].error # None
        /\ Succeeded(runs[r].answers[2])
        /\ runs[r].answers[2].parsed # runs[r].answers[1].parsed
        /\ runs[r].returned # None

(***************************************************************************)
(* C4: when both the primary call and the repair call fail, generate_deck  *)
(* raises SchemaValidationFailedError whose details hold the validation    *)
(* entry (field "response", type "schema_validation_failed"), the text of  *)
(* the original error under parsing_error and the text of the repair error *)
(* under repair_error, and no DeckResponse is produced.                    *)
(* As stated (the texts are the errors' whole texts):                      *)
(***************************************************************************)
C4_Original ==
    \A r \in RunIds :
        (/\ Len(runs[r].answers) = 2
         /\ ~Succeeded(runs[r].answers[1])
         /\ ~Succeeded(runs[r].answers[2]))
            => /\ IsSchemaFailure(runs[r])
               /\ runs[r].returned = None
               /\ runs[r].raised.details.validation_errors = <<ResponseEntry>>
               /\ runs[r].raised.details.parsing_error = FullText(runs[r].answers[1].error)
               /\ runs[r].raised.details.repair_error = FullText(runs[r].answers[2].error)

(***************************************************************************)
(* C4 as amended: the same, where each of the two texts is the first       *)
(* max_chars (1600) characters of the error's text, and "" for an answer   *)
(* that failed without an error object.                                    *)
(***************************************************************************)
C4_BothFail ==
    \A r \in RunIds :
        (/\ Len(runs[r].answers) = 2
         /\ ~Succeeded(runs[r].answers[1])
         /\ ~Succeeded(runs[r].answers[2]))
            => /\ IsSchemaFailure(runs[r])
               /\ runs[r].returned = None
               /\ runs[r].raised.details.validation_errors = <<ResponseEntry>>
               /\ runs[r].raised.details.parsing_error = CutText(runs[r].answers[1].error, 1600)
               /\ runs[r].raised.details.repair_error = CutText(runs[r].answers[2].error, 1600)

\* both calls failed with different errors, the first one longer than 1600
C4_Witness ==
    \E r \in RunIds :
        /\ Len(runs[r].answers) = 2
        /\ runs[r].answers[1].error # None
        /\ runs[r].answers[2].error # None
        /\ runs[r].answers[1].error.msg # runs[r].answers[2].error.msg
        /\ runs[r].answers[1].error.len > 1600
        /\ IsSchemaFailure(runs[r])

(***************************************************************************)
(* C5: a failure raised by the capability call itself that is no           *)
(* parse/validation outcome (network, auth, rate limit, timeout,           *)
(* cancellation), on the primary or on the repair call, leaves             *)
(* generate_deck as the same exception, and no call is made after it.      *)
(***************************************************************************)
C5_ProviderFailurePropagates ==
    \A r \in RunIds :
        (runs[r].thrown # None /\ runs[r].thrown \in ProviderFailures)
            => /\ runs[r].pc = "done"
               /\ runs[r].raised = runs[r].thrown
               /\ runs[r].returned = None
               /\ runs[r].ainvoke_count = Len(runs[r].answers) + 1
               /\ runs[r].repair_count = Len(runs[r].answers)

\* the primary call timed out
C5_Witness ==
    \E r \in RunIds :
        /\ runs[r].thrown # None
        /\ runs[r].thrown.type = "APITimeoutError"
        /\ runs[r].answers = <<>>
        /\ runs[r].pc = "done"
        /\ runs[r].repair_count = 0

FullyPopulated(resp) ==
    /\ resp.deck_id # ""
    /\ resp.topic # None
    /\ resp.difficulty_level # ""
    /\ Len(resp.concepts) > 0
    /\ \A i \in 1..Len(resp.concepts) : resp.concepts[i].card_id # None
    /\ resp.generation_metadata.model # ""
    /\ resp.generation_metadata.prompt_version # ""
    /\ resp.generation_metadata.tokens # None
    /\ resp.generation_metadata.tokens.tag = "TokenUsage"
    /\ resp.generation_metadata.timestamp # None

C7_AllOrNothing ==
    \A r \in RunIds :
        /\ runs[r].pc # "done" => runs[r].returned = None /\ runs[r].raised = None
        /\ runs[r].pc = "done" =>
            \/ /\ runs[r].returned # None
               /\ runs[r].raised = None
               /\ FullyPopulated(runs[r].returned)
               /\ Len(runs[r].answers) >= 1
               /\ Succeeded(runs[r].answers[Len(runs[r].answers)])
               /\ SameContent(runs[r].returned.concepts,
                              runs[r].answers[Len(runs[r].answers)].parsed.concepts)
            \/ /\ runs[r].returned = None
               /\ IsSchemaFailure(runs[r])
            \/ /\ runs[r].returned = None
               /\ runs[r].raised # None
               /\ runs[r].raised \in ProviderFailures
               /\ runs[r].raised = runs[r].thrown

\* a response came back although the primary call had delivered an output
\* together with an error
C7_Witness ==
    \E r \in RunIds :
        /\ runs[r].pc = "done"
        /\ runs[r].returned # None
        /\ Len(runs[r].answers) = 2
        /\ runs[r].answers[1].parsed # None

(***************************************************************************)
(* C8: in every successful run generation_metadata.tokens is the           *)
(* field-wise sum (prompt, completion, total) of the usage reported by     *)
(* every structured call of the run: the primary call's alone without a    *)
(* repair, primary plus repair with one, the failed primary included.      *)
(***************************************************************************)
C8_TokensAreSummed ==
    \A r \in RunIds :
        runs[r].returned # None
            => /\ runs[r].returned.generation_metadata.tokens.prompt
                    = SumReported(runs[r].answers, "input_tokens")
               /\ runs[r].returned.generation_metadata.tokens.completion
                    = SumReported(runs[r].answers, "output_tokens")
               /\ runs[r].returned.generation_metadata.tokens.total
                    = SumReported(runs[r].answers, "total_tokens")

\* a repaired run whose two calls both reported a total
C8_Witness ==
    \E r \in RunIds :
        /\ runs[r].returned # None
        /\ Len(runs[r].answers) = 2
        /\ Reported(runs[r].answers[1].raw, "total_tokens") > 0
        /\ Reported(runs[r].answers[2].raw, "total_tokens") > 0
        /\ runs[r].returned.generation_metadata.tokens.total
              = Reported(runs[r].answers[1].raw, "total_tokens")
                + Reported(runs[r].answers[2].raw, "total_tokens")

(***************************************************************************)
(* C9: _combine_tokens is commutative and associative, each field of the   *)
(* result being the sum of the corresponding fields.                       *)
(***************************************************************************)
C9_CombineCommutativeAssociative ==
    (calc.op = "combine" /\ calc.out # None)
        => /\ calc.out.ab = calc.out.ba
           /\ calc.out.ab_c = calc.out.a_bc
           /\ calc.out.ab.tag = "TokenUsage"
           /\ calc.out.ab.prompt = calc.a.prompt + calc.b.prompt
           /\ calc.out.ab.completion = calc.a.completion + calc.b.completion
           /\ calc.out.ab.total = calc.a.total + calc.b.total

C9_Witness ==
    /\ calc.op = "combine"
    /\ calc.out # None
    /\ calc.a.total # calc.b.total
    /\ calc.b.total # calc.c.total
    /\ calc.a.prompt # calc.b.prompt

(***************************************************************************)
(* C10: _token_usage_from_raw never fails on a raw response that lacks     *)
(* usage metadata: for a raw response that is None, has no usage_metadata  *)
(* attribute, has usage_metadata None or empty, or lacks some counters,    *)
(* every missing counter is reported as 0 and every present one unchanged. *)
(***************************************************************************)
C10_MissingUsageIsZero ==
    (calc.op = "extract" /\ calc.out # None)
        => /\ calc.out.tag = "TokenUsage"
           /\ calc.out.prompt = Reported(calc.raw, "input_tokens")
           /\ calc.out.completion = Reported(calc.raw, "output_tokens")
           /\ calc.out.total = Reported(calc.raw, "total_tokens")

\* only output_tokens is reported
C10_Witness ==
    /\ calc.op = "extract"
    /\ calc.out # None
    /\ calc.raw # None
    /\ calc.raw.usage_metadata # None
    /\ DOMAIN calc.raw.usage_metadata.items = {"output_tokens"}
    /\ calc.raw.usage_metadata.items["output_tokens"] > 0
    /\ calc.out.tag = "TokenUsage"
    /\ calc.out.prompt = 0

(***************************************************************************)
(* C11: promotion preserves content and order: a returned response holds   *)
(* as many concepts as the accepted LLM output, and its i-th concept has   *)
(* the title, bullets, example_possible and example_hint of the i-th LLM   *)
(* concept.                                                                *)
(***************************************************************************)
\* the output the run accepted: the parsed object of its last answer
Accepted(run) == run.answers[Len(run.answers)].parsed

C11_PromotionPreservesContent ==
    \A r \in DOMAIN runs :
        runs[r].returned # None =>
            LET concepts == runs[r].returned.concepts
                llm_concepts == Accepted(runs[r]).concepts
            IN  /\ Len(concepts) = Len(llm_concepts)
                /\ \A i \in 1..Len(concepts) :
                      /\ concepts[i].title = llm_concepts[i].title
                      /\ concepts[i].bullets = llm_concepts[i].bullets
                      /\ concepts[i].example_possible = llm_concepts[i].example_possible
                      /\ concepts[i].example_hint = llm_concepts[i].example_hint

\* a repaired deck of four different concepts, some with a hint, is returned
C11_Witness ==
    \E r \in DOMAIN runs :
        /\ runs[r].returned # None
        /\ runs[r].repair_count = 1
        /\ Len(runs[r].returned.concepts) = 4
        /\ runs[r].returned.concepts[1].title # runs[r].returned.concepts[2].title
        /\ \E i \in 1..4 : runs[r].returned.concepts[i].example_hint # None
        /\ \E i \in 1..4 : runs[r].returned.concepts[i].example_hint = None

(***************************************************************************)
(* C12: every concept of a returned response carries a card id that was    *)
(* drawn during promotion and is not taken from the LLM output; the card   *)
(* ids of one response are pairwise distinct, also when the LLM returned   *)
(* identical concepts.                                                     *)
(***************************************************************************)
C12_CardIdsDistinct ==
    \A r \in DOMAIN runs :
        runs[r].returned # None =>
            LET concepts == runs[r].returned.concepts
            IN  /\ \A i \in 1..Len(concepts) :
                      /\ concepts[i].card_id.tag = "UUID"
                      /\ concepts[i].card_id.n \in 1..uuid_next
                      /\ "card_id" \notin DOMAIN Accepted(runs[r]).concepts[i]
                /\ \A i, j \in 1..Len(concepts) :
                      i # j => concepts[i].card_id # concepts[j].card_id

\* the LLM returned three identical concepts
C12_Witness ==
    \E r \in DOMAIN runs :
        /\ runs[r].returned # None
        /\ Len(runs[r].returned.concepts) = 3
        /\ Accepted(runs[r]).concepts[1] = Accepted(runs[r]).concepts[2]
        /\ Accepted(runs[r]).concepts[2] = Accepted(runs[r]).concepts[3]

(***************************************************************************)
(* C13: a returned response echoes the request's topic, difficulty_level   *)
(* and scope and the deck id the caller supplied; its metadata carries the *)
(* client's model name, the version registered for the deck system prompt  *)
(* and rag_used = false, on the primary path and on the repair path.       *)
(***************************************************************************)
C13_EchoesRequest ==
    \A r \in DOMAIN runs :
        runs[r].returned # None =>
            LET resp == runs[r].returned
            IN  /\ resp.topic = runs[r].request.topic
                /\ resp.difficulty_level = runs[r].request.difficulty_level
                /\ resp.scope = runs[r].request.scope
                /\ resp.deck_id = DeckIds[r]
                /\ resp.generation_metadata.model = runs[r].self.model
                /\ resp.generation_metadata.prompt_version = PROMPT_VERSIONS["deck_system"]
                /\ resp.generation_metadata.rag_used = FALSE

\* a repaired deck for a request with a scope, on a client whose model is
\* not the default
C13_Witness ==
    \E r \in DOMAIN runs :
        /\ runs[r].returned # None
        /\ runs[r].repair_count = 1
        /\ runs[r].request.scope # None
        /\ runs[r].self.model # DEFAULT_MODEL
        /\ runs[r].returned.scope = runs[r].request.scope

(***************************************************************************)
(* C14: the timestamp of a returned response is the start time the run     *)
(* read before it issued the primary call; neither the repair nor the      *)
(* completion of the run replaces it, so it precedes every LLM call of the *)
(* run and the end of the run.                                             *)
(***************************************************************************)
C14_TimestampIsStartTime ==
    \A r \in DOMAIN runs :
        runs[r].returned # None =>
            LET stamp == runs[r].returned.generation_metadata.timestamp
            IN  /\ stamp = runs[r].start_time
                /\ stamp.tag = "datetime"
                /\ Len(runs[r].sent_at) = runs[r].ainvoke_count
                /\ \A i \in 1..Len(runs[r].sent_at) : stamp.t < runs[r].sent_at[i]
                /\ \A i \in 1..Len(runs[r].answered_at) : stamp.t < runs[r].answered_at[i]
                /\ stamp.t < runs[r].ended_at.t

\* a deck returned after a repair: two calls lie between start and end
C14_Witness ==
    \E r \in DOMAIN runs :
        /\ runs[r].returned # None
        /\ runs[r].repair_count = 1
        /\ Len(runs[r].sent_at) = 2
        /\ runs[r].sent_at[2] > runs[r].sent_at[1]
        /\ runs[r].returned.generation_metadata.timestamp.t < runs[r].sent_at[1]

(***************************************************************************)
(* C19: within one run the LLM calls are strictly sequential: at most one  *)
(* call is in flight at any time, and the repair call is issued only after *)
(* the primary call has completed with a parse or validation failure.      *)
(***************************************************************************)
\* calls of a run that have been issued and have neither returned nor raised
InFlight(run) ==
    Len(run.sent) - Len(run.answers) - (IF run.thrown # None THEN 1 ELSE 0)

C19_CallsSequential ==
    \A r \in DOMAIN runs :
        /\ InFlight(runs[r]) \in {0, 1}
        /\ Len(runs[r].sent) = runs[r].ainvoke_count
        /\ Len(runs[r].sent_at) = Len(runs[r].sent)
        /\ \A i \in 2..Len(runs[r].sent_at) :
              /\ i - 1 <= Len(runs[r].answers)
              /\ runs[r].answered_at[i - 1] < runs[r].sent_at[i]
        /\ runs[r].repair_count >= 1 =>
              /\ Len(runs[r].answers) >= 1
              /\ ~Succeeded(runs[r].answers[1])

\* the repair call is in flight, the primary call has returned a failure
C19_Witness ==
    \E r \in DOMAIN runs :
        /\ runs[r].pc = "repair"
        /\ runs[r].repair_count = 1
        /\ InFlight(runs[r]) = 1
        /\ Len(runs[r].answers) = 1
        /\ runs[r].answers[1].error # None

(***************************************************************************)
(* C20: the repair call sends exactly one system/user message pair; the    *)
(* system text is the fixed repair instruction, and the user text embeds   *)
(* the original system prompt, the original user prompt, the text of the   *)
(* primary call's error, the serialized LLMDeckOutput schema and the       *)
(* textual content of the primary call's raw response.                     *)
(***************************************************************************)
\* the textual content of a raw response, "" for an absent one
ContentText(raw) == IF raw = None THEN EmptyText ELSE raw.content

C20_RepairPromptEmbedsAll ==
    \A r \in DOMAIN runs :
        runs[r].repair_count >= 1 =>
            LET primary == runs[r].sent[1]
                repair == runs[r].sent[2]
                first == runs[r].answers[1]
            IN  /\ Len(runs[r].sent) = 2
                /\ Len(repair) = 2
                /\ repair[1].role = "system"
                /\ repair[1].text = [tag |-> "prompt", template |-> "repair_system_prompt"]
                /\ repair[2].role = "human"
                /\ repair[2].text.template = "repair"
                /\ repair[2].text.base_system_prompt = primary[1].text
                /\ repair[2].text.base_user_prompt = primary[2].text
                /\ repair[2].text.parsing_error = FullText(first.error)
                /\ repair[2].text.schema_json = schema_json
                /\ repair[2].text.raw_output = ContentText(first.raw)

(***************************************************************************)
(* C17: an LLM output is accepted only if it has between 3 and 7 concepts  *)
(* and each concept has a non-empty title and exactly 5 non-empty bullets; *)
(* so every DeckResponse that generate_deck returns has 3..7 concepts with *)
(* exactly 5 non-empty bullets each.  Checked on a capability that also    *)
(* hands out objects breaking each of these rules.                         *)
(***************************************************************************)
\* the rules of the claim, for a sequence of concepts
WellFormedConcepts(concepts) ==
    /\ Len(concepts) >= 3
    /\ Len(concepts) <= 7
    /\ \A i \in 1..Len(concepts) :
          /\ concepts[i].title # ""
          /\ Len(concepts[i].bullets) = 5
          /\ \A j \in 1..5 : concepts[i].bullets[j] # ""

C17_OnlyWellFormedDecks ==
    \A r \in DOMAIN runs :
        runs[r].returned # None =>
            /\ WellFormedConcepts(Accepted(runs[r]).concepts)
            /\ WellFormedConcepts(runs[r].returned.concepts)

\* the primary call handed out a malformed object together with an error,
\* the repair call a well-formed one, which is returned
C17_Witness ==
    \E r \in DOMAIN runs :
        /\ runs[r].returned # None
        /\ Len(runs[r].answers) = 2
        /\ runs[r].answers[1].parsed # None
        /\ ~WellFormedConcepts(runs[r].answers[1].parsed.concepts)
        /\ Len(runs[r].returned.concepts) = 4

(***************************************************************************)
(* C15: a POST whose body fails validation (empty or whitespace-only       *)
(* topic, oversized topic, unknown difficulty, max_concepts outside 3..7)  *)
(* is answered with 400 INVALID_INPUT, retryable false and a non-empty     *)
(* details.validation_errors; generate_deck is never invoked for it, no    *)
(* LLM call is made and nothing is written to the database.                *)
(***************************************************************************)
IsWordChar(c) == c \notin Whitespace

\* the ways of the claim in which a body is invalid
FailsValidation(body) ==
    \/ SelectSeq(body.topic.chars, IsWordChar) = <<>>
    \/ Len(SelectSeq(body.topic.chars, IsWordChar)) > 200
    \/ body.difficulty_level # None
          /\ body.difficulty_level.word \notin {"beginner", "intermediate", "advanced"}
    \/ body.max_concepts # None
          /\ (body.max_concepts.int < 3 \/ body.max_concepts.int > 7)

C15_InvalidRequestRejected ==
    \A r \in DOMAIN http :
        (http[r].pc # "none" /\ FailsValidation(http[r].body)) =>
            /\ http[r].pc = "responded"
            /\ http[r].response.status_code = 400
            /\ http[r].response.content.error.code = "INVALID_INPUT"
            /\ http[r].response.content.error.retryable = FALSE
            /\ Len(http[r].response.content.error.details.validation_errors) >= 1
            /\ runs[r].pc = "idle"
            /\ runs[r].ainvoke_count = 0
            /\ runs[r].sent = <<>>
            /\ db = EmptyDb

\* a topic of whitespace only, tabs among it, has been rejected
C15_Witness ==
    \E r \in DOMAIN http :
        /\ http[r].pc = "responded"
        /\ http[r].response.status_code = 400
        /\ Len(http[r].body.topic.chars) = 3
        /\ \A i \in 1..3 : http[r].body.topic.chars[i] \in Whitespace
        /\ \E i \in 1..3 : http[r].body.topic.chars[i] = "\t"
        /\ runs[r].pc = "idle"

(***************************************************************************)
(* C16: the topic and the scope that reach the LLM client are the posted   *)
(* ones with every run of whitespace collapsed to a single space and both  *)
(* ends trimmed; a topic that normalizes to the empty string is rejected;  *)
(* normalizing a normalized value leaves it unchanged.                     *)
(***************************************************************************)
\* no whitespace at either end, no whitespace but single spaces inside
IsCollapsed(s) ==
    /\ s # <<>> => (s[1] \notin Whitespace /\ s[Len(s)] \notin Whitespace)
    /\ \A i \in 1..Len(s) :
          s[i] \in Whitespace => (s[i] = " " /\ s[i + 1] \notin Whitespace)

\* the number of words of a raw string
WordCount(s) ==
    Cardinality({i \in 1..Len(s) :
                    s[i] \notin Whitespace /\ (i = 1 \/ s[i - 1] \in Whitespace)})

\* t is s with its whitespace collapsed and trimmed
CollapseOf(s, t) ==
    /\ IsCollapsed(t)
    /\ SelectSeq(t, IsWordChar) = SelectSeq(s, IsWordChar)
    /\ WordCount(t) = WordCount(s)
    /\ t = normalize_whitespace(s)
    /\ normalize_whitespace(t) = t

C16_NormalizedBeforeClient ==
    \A r \in DOMAIN http :
        http[r].pc # "none" =>
            LET body == http[r].body
                topic == normalize_whitespace(body.topic.chars)
            IN  /\ CollapseOf(body.topic.chars, topic)
                /\ topic = <<>> =>
                      /\ http[r].response # None
                      /\ http[r].response.status_code = 400
                      /\ runs[r].pc = "idle"
                /\ runs[r].pc # "idle" =>
                      /\ topic # <<>>
                      /\ runs[r].request.topic = ToText(topic)
                      /\ body.scope = None => runs[r].request.scope = None
                      /\ body.scope # None =>
                            /\ CollapseOf(body.scope.chars, normalize_whitespace(body.scope.chars))
                            /\ runs[r].request.scope
                                  = ToText(normalize_whitespace(body.scope.chars))
                      /\ runs[r].sent # <<>> =>
                            runs[r].sent[1][2].text.topic = ToText(topic)

\* a topic and a scope with runs of whitespace have reached the client, and
\* the primary call carries the collapsed topic
C16_Witness ==
    \E r \in DOMAIN http :
        /\ runs[r].pc = "primary"
        /\ http[r].body.scope # None
        /\ Len(http[r].body.topic.chars) > runs[r].request.topic.len
        /\ Len(http[r].body.scope.chars) > runs[r].request.scope.len
        /\ \E i \in 1..Len(http[r].body.scope.chars) : http[r].body.scope.chars[i] = "\t"
        /\ runs[r].sent[1][2].text.topic = runs[r].request.topic

(***************************************************************************)
(* C18: concurrent runs of generate_deck on the shared client are          *)
(* independent: under every interleaving of two runs at their LLM calls,   *)
(* the outcome of each run (concepts, token usage, error details, number   *)
(* of repair calls) is the outcome of that run executed alone on the same  *)
(* answers of the capability.                                              *)
(***************************************************************************)
\* the run executed alone from the same call, with the answers it received
Alone(run) ==
    LET prompts == get_deck_prompts(run.request.topic, run.request.difficulty_level,
                                    run.request.max_concepts, run.request.scope)
        called == [NewRun(run.request, run.deck_id) EXCEPT !.self = run.self]
        started == [called EXCEPT
                       !.pc = "primary",
                       !.system_prompt = prompts[1],
                       !.user_prompt = prompts[2],
                       !.start_time = run.start_time,
                       !.sent = <<<<[role |-> "system", text |-> prompts[1]],
                                    [role |-> "human", text |-> prompts[2]]>>>>,
                       !.ainvoke_count = 1]
        answers == run.answers
        first == IF Len(answers) >= 1
                 THEN after_primary(started, answers[1].parsed, answers[1].raw,
                                    answers[1].error, 0)
                 ELSE IF run.thrown # None
                 THEN handle_exception([started EXCEPT !.thrown = run.thrown], run.thrown)
                 ELSE started
        second == IF Len(answers) = 2
                  THEN after_repair(first, answers[2].parsed, answers[2].raw,
                                    answers[2].error, 0)
                  ELSE IF Len(answers) = 1 /\ run.thrown # None
                  THEN handle_exception([first EXCEPT !.thrown = run.thrown], run.thrown)
                  ELSE first
    IN  IF run.pc = "start" THEN called ELSE second

\* what a run has produced, leaving aside the card ids it drew
Outcome(run) ==
    [pc |-> run.pc,
     returned |-> IF run.returned = None THEN None
                  ELSE [run.returned EXCEPT
                           !.concepts = [i \in 1..Len(run.returned.concepts) |->
                                            [run.returned.concepts[i] EXCEPT !.card_id = None]]],
     raised |-> run.raised,
     actual_tokens |-> run.actual_tokens,
     repair_count |-> run.repair_count,
     ainvoke_count |-> run.ainvoke_count,
     sent |-> run.sent]

C18_RunsIndependent ==
    \A r \in DOMAIN runs : Outcome(runs[r]) = Outcome(Alone(runs[r]))

\* the first run returned a repaired deck, the second failed both calls; the
\* second run's primary answer arrived between the two answers of the first,
\* and the two runs report different usage
C18_Witness ==
    /\ DOMAIN runs = ConcRunIds
    /\ runs["r1"].returned # None
    /\ runs["r1"].repair_count = 1
    /\ IsSchemaFailure(runs["r2"])
    /\ Len(runs["r2"].answers) = 2
    /\ runs["r1"].answered_at[1] < runs["r2"].answered_at[1]
    /\ runs["r2"].answered_at[1] < runs["r1"].answered_at[2]
    /\ runs["r1"].actual_tokens # runs["r2"].actual_tokens

(***************************************************************************)
(* C21: when generate_deck fails with a provider failure (an exception     *)
(* that is no SchemaValidationFailedError, ValidationError or              *)
(* SQLAlchemyError), the POST is answered with 502, code                   *)
(* LLM_PROVIDER_ERROR, retryable true and recovery_action "Retry in a few  *)
(* seconds.", and no deck and no card of the request is committed.         *)
(***************************************************************************)
\* the exception is handled by the last except clause of the route
IsProviderFailure(e) ==
    e.type \notin {"SchemaValidationFailedError", "ValidationError", "SQLAlchemyError"}

\* the rows committed for a deck id
RowsOf(deck_id) ==
    {d \in db.decks : d.deck_id = deck_id} \cup {c \in db.cards : c.deck_id = deck_id}

C22_SchemaFailureAnswered ==
    \A r \in DOMAIN runs :
        IsSchemaFailure(runs[r]) =>
            /\ RowsOf(http[r].deck_id) = {}
            /\ http[r].pc \in {"pending", "responded"}
            /\ runs[r].pc = "done"
            /\ runs[r].ainvoke_count <= 2
            /\ http[r].pc = "responded" =>
                  /\ http[r].response.status_code = 502
                  /\ http[r].response.content.error.code = "SCHEMA_VALIDATION_FAILED"
                  /\ http[r].response.content.error.retryable = FALSE
                  /\ "details" \in DOMAIN http[r].response.content.error
                  /\ http[r].response.content.error.details = runs[r].raised.details

C22_SchemaFailure502 ==
    /\ []C22_SchemaFailureAnswered
    /\ [][\A r \in DOMAIN runs : IsSchemaFailure(runs[r]) => runs'[r] = runs[r]]_vars

\* both calls failed, and the answer carries the two error texts
C22_Witness ==
    \E r \in DOMAIN runs :
        /\ http[r].pc = "responded"
        /\ IsSchemaFailure(runs[r])
        /\ Len(runs[r].answers) = 2
        /\ http[r].response.content.error.details.parsing_error # EmptyText
        /\ http[r].response.content.error.details.repair_error # EmptyText

(***************************************************************************)
(* C23: GET /v1/deck/{deck_id} answers 404 with code NOT_FOUND and         *)
(* details.deck_id equal to the requested id when no deck with that id is  *)
(* stored, and otherwise returns the stored payload; for a deck committed  *)
(* by POST /v1/deck/generate this is the DeckResponse the POST returned    *)
(* (deck_id, topic, concepts, metadata).  Stated for a GET whose query     *)
(* succeeds.                                                               *)
(***************************************************************************)
\* every stored payload reads back as the response of the POST that stored it
C23_StoredReadsBack ==
    \A d \in db.decks :
        /\ IsDeckResponse(model_validate(d.payload))
        /\ model_validate(d.payload).deck_id = d.deck_id
        /\ \A r \in DOMAIN runs :
              http[r].deck_id = d.deck_id =>
                  /\ http[r].pc = "responded"
                  /\ http[r].response.status_code = 201
                  /\ model_validate(d.payload) = http[r].response.content

\* the answer of a GET that is served in this step
C23_GetAnswers ==
    \A h \in DOMAIN http \ DOMAIN runs :
        (/\ http[h].pc = "none"
         /\ http'[h].pc = "responded"
         /\ http'[h].response.status_code # 500) =>
            LET asked == http'[h].deck_id
                stored == {d \in db.decks : d.deck_id = asked}
                resp == http'[h].response
            IN  /\ stored = {} =>
                      /\ resp.status_code = 404
                      /\ resp.content.error.code = "NOT_FOUND"
                      /\ resp.content.error.details.deck_id = uuid_str(asked)
                /\ \A d \in stored :
                      /\ resp.status_code = 200
                      /\ resp.content.deck_id = asked
                      /\ model_dump(resp.content) = d.payload
                      /\ \A r \in DOMAIN runs :
                            http[r].deck_id = asked =>
                                /\ resp.content.deck_id = http[r].response.content.deck_id
                                /\ resp.content.topic = http[r].response.content.topic
                                /\ resp.content.concepts = http[r].response.content.concepts
                                /\ resp.content.generation_metadata
                                      = http[r].response.content.generation_metadata
                                /\ resp.content = http[r].response.content

C23_GetDeck == []C23_StoredReadsBack /\ [][C23_GetAnswers]_vars

\* a deck made by a repaired run was posted and then read
C23_Witness ==
    \E h \in DOMAIN http \ DOMAIN runs, r \in DOMAIN runs :
        /\ http[h].pc = "responded"
        /\ http[h].response.status_code = 200
        /\ http[r].pc = "responded"
        /\ http[r].response.status_code = 201
        /\ runs[r].repair_count = 1
        /\ http[h].response.content = http[r].response.content
        /\ http[h].response.content.generation_metadata.timestamp.t > 0

(***************************************************************************)
(* C24: each HTTP request has exactly one request ID, the value of its     *)
(* X-Request-ID header when supplied and a freshly generated one           *)
(* otherwise; that ID is the X-Request-ID header of every response         *)
(* (success or error) and the request_id of any error payload, and         *)
(* concurrent requests never receive each other's ID.                      *)
(***************************************************************************)
\* the request has its own ID: its header's value, or an identifier that was
\* generated for it and for no other request
HasOwnRequestId(h) ==
    /\ http[h].header # None => http[h].request_id = http[h].header
    /\ http[h].header = None =>
          /\ http[h].request_id = uuid_str(UUID(http[h].request_id.n))
          /\ http[h].request_id.n \in 1..uuid_next
          /\ \A o \in DOMAIN http \ {h} : http[o].request_id # http[h].request_id

\* the response carries the ID of its request in its header and, when it is
\* an error payload, in the payload
CarriesRequestId(h) ==
    /\ "X_Request_ID" \in DOMAIN http[h].response.headers
    /\ http[h].response.headers.X_Request_ID = http[h].request_id
    /\ "error" \in DOMAIN http[h].response.content =>
          http[h].response.content.error.request_id = http[h].request_id

C24_RequestIdOnEveryResponse ==
    \A h \in DOMAIN http :
        /\ http[h].pc # "none" => HasOwnRequestId(h)
        /\ http[h].pc = "responded" => CarriesRequestId(h)

(***************************************************************************)
(* C24, the part that holds: the same for every response that a route      *)
(* handler or an exception handler of the application returned, which      *)
(* leaves out the response the server sends when a handler raised.         *)
(***************************************************************************)
C24_HandledResponses ==
    \A h \in DOMAIN http :
        /\ http[h].pc # "none" => HasOwnRequestId(h)
        /\ (http[h].pc = "responded" /\ http[h].response # unhandled_error_response)
              => CarriesRequestId(h)

\* a GET arrived after a POST and was served before the POST committed its
\* deck; neither carried the header
C24_Witness ==
    \E h \in DOMAIN http \ DOMAIN runs, r \in DOMAIN runs :
        /\ http[r].pc = "responded"
        /\ http[h].pc = "responded"
        /\ http[r].header = None
        /\ http[h].header = None
        /\ http[h].request_id.n > http[r].request_id.n
        /\ http[h].deck_id = http[r].deck_id
        /\ http[h].response.status_code = 404
        /\ http[r].response.status_code = 201
        /\ http[h].response.content.error.request_id # http[r].request_id

(***************************************************************************)
(* C25: an outcome of a call counts as a success only when a parsed output *)
(* is present and no error is present.  An outcome with a parsed output    *)
(* and an error is a failure: as the primary outcome it triggers the       *)
(* repair call, as the repair outcome it ends the run in                   *)
(* SchemaValidationFailedError; a response is returned only after an       *)
(* outcome with a parsed output and no error.                              *)
(***************************************************************************)
\* an outcome that has both a parsed output and an error
OutputWithError(ans) == ans.parsed # None /\ ans.error # None

C25_SuccessNeedsNoError ==
    \A r \in DOMAIN runs :
        /\ (Len(runs[r].answers) >= 1 /\ OutputWithError(runs[r].answers[1])) =>
              /\ runs[r].repair_count = 1
              /\ Len(runs[r].sent) = 2
              /\ runs[r].sent[2][2].text.template = "repair"
              /\ Len(runs[r].answers) = 1 => runs[r].returned = None
        /\ (Len(runs[r].answers) = 2 /\ OutputWithError(runs[r].answers[2])) =>
              /\ runs[r].returned = None
              /\ runs[r].raised # None
              /\ runs[r].raised.type = "SchemaValidationFailedError"
        /\ runs[r].returned # None =>
              /\ runs[r].answers[Len(runs[r].answers)].parsed # None
              /\ runs[r].answers[Len(runs[r].answers)].error = None

\* both calls delivered an output together with an error
C25_Witness ==
    \E r \in DOMAIN runs :
        /\ Len(runs[r].answers) = 2
        /\ OutputWithError(runs[r].answers[1])
        /\ OutputWithError(runs[r].answers[2])
        /\ runs[r].raised # None
        /\ runs[r].raised.type = "SchemaValidationFailedError"

(***************************************************************************)
(* C26: token accounting keeps totals consistent: if the usage extracted   *)
(* from every call of a run satisfies total = prompt + completion, the     *)
(* TokenUsage in the returned metadata satisfies it too; and the three     *)
(* counters of a returned TokenUsage are never negative.                   *)
(***************************************************************************)
\* the usage a call reported has total = prompt + completion
ConsistentUsage(raw) ==
    Reported(raw, "total_tokens")
        = Reported(raw, "input_tokens") + Reported(raw, "output_tokens")

C26_TotalsConsistent ==
    \A r \in DOMAIN runs :
        runs[r].returned # None =>
            LET tokens == runs[r].returned.generation_metadata.tokens
            IN  /\ tokens.prompt >= 0
                /\ tokens.completion >= 0
                /\ tokens.total >= 0
                /\ (\A i \in 1..Len(runs[r].answers) : ConsistentUsage(runs[r].answers[i].raw))
                      => tokens.total = tokens.prompt + tokens.completion

\* a repaired run whose two calls each reported a consistent usage above zero
C26_Witness ==
    \E r \in DOMAIN runs :
        /\ runs[r].returned # None
        /\ Len(runs[r].answers) = 2
        /\ \A i \in 1..2 :
              /\ ConsistentUsage(runs[r].answers[i].raw)
              /\ Reported(runs[r].answers[i].raw, "total_tokens") > 0
        /\ runs[r].returned.generation_metadata.tokens.total
              = Reported(runs[r].answers[1].raw, "total_tokens")
                + Reported(runs[r].answers[2].raw, "total_tokens")

(***************************************************************************)
(* C27: a POST persists atomically and only after generation succeeded.    *)
(* The deck row and exactly one card row per concept (card_id of the       *)
(* concept, deck_id of the deck, tokens_used = the total of the metadata)  *)
(* are committed in the one step that produces the 201 response; a request *)
(* whose generation or persistence failed has no row committed and is      *)
(* answered with an error, never with a 201.                               *)
(***************************************************************************)
\* the request has been answered with the created deck
Created(r) ==
    /\ http[r].pc = "responded"
    /\ http[r].response.status_code = 201

\* the rows of a created deck are the deck row and one card row per concept
C27_CreatedRows ==
    \A r \in DOMAIN runs :
        Created(r) =>
            LET deck == http[r].response.content
                decks == {d \in db.decks : d.deck_id = http[r].deck_id}
                cards == {c \in db.cards : c.deck_id = http[r].deck_id}
            IN  /\ runs[r].returned = deck
                /\ deck.deck_id = http[r].deck_id
                /\ Cardinality(decks) = 1
                /\ \A d \in decks : d.tokens_used = deck.generation_metadata.tokens.total
                /\ Cardinality(cards) = Len(deck.concepts)
                /\ \A i \in 1..Len(deck.concepts) :
                      Cardinality({c \in cards : c.card_id = deck.concepts[i].card_id}) = 1

\* a request that is not answered with 201 has no row
C27_NothingOtherwise ==
    \A r \in DOMAIN runs :
        ~Created(r) =>
            /\ RowsOf(http[r].deck_id) = {}
            /\ http[r].pc = "responded" =>
                  /\ http[r].response.status_code \in {400, 500, 502}
                  /\ "error" \in DOMAIN http[r].response.content
            /\ (runs[r].pc = "done" /\ runs[r].raised # None) => http[r].pc # "none"

\* the database changes only in the step that answers one request with 201,
\* and by the rows of that request only
C27_SingleCommit ==
    db' # db =>
        \E r \in DOMAIN runs :
            /\ http[r].pc = "pending"
            /\ runs[r].returned # None
            /\ http'[r].pc = "responded"
            /\ http'[r].response.status_code = 201
            /\ db'.decks = db.decks \cup
                              {deck_row(runs[r].request, http[r].deck_id, runs[r].returned)}
            /\ db'.cards = db.cards \cup card_rows(http[r].deck_id, runs[r].returned)
            /\ \A q \in DOMAIN runs \ {r} : http'[q] = http[q]

C27_AtomicPersistence ==
    /\ []C27_CreatedRows
    /\ []C27_NothingOtherwise
    /\ [][C27_SingleCommit]_vars

\* one request created its deck after a repair and has its rows, the other
\* one generated a deck, failed to persist it and has none
C27_Witness ==
    \E r, q \in DOMAIN runs :
        /\ r # q
        /\ Created(r)
        /\ runs[r].repair_count = 1
        /\ Cardinality(RowsOf(http[r].deck_id)) = 1 + Len(runs[r].returned.concepts)
        /\ http[q].pc = "responded"
        /\ runs[q].returned # None
        /\ http[q].response.status_code = 500
        /\ RowsOf(http[q].deck_id) = {}

(***************************************************************************)
(* C28: a pydantic ValidationError raised after an output was accepted,    *)
(* while the concepts are promoted or the DeckResponse is assembled, ends  *)
(* the run in SchemaValidationFailedError whose details.validation_errors  *)
(* has one entry per reported error, in order, with the dotted location as *)
(* field ("response" when the location is empty); no further call is made  *)
(* and no DeckResponse is returned.                                        *)
(***************************************************************************)
\* the errors the assembly of an accepted output reports: those of the first
\* concept that breaks a rule, else the one on the number of concepts
AssemblyErrors(output) ==
    LET bad == {i \in 1..Len(output.concepts) : ~ValidConcept(output.concepts[i])}
    IN  IF bad # {}
        THEN ConceptErrors(output.concepts[CHOOSE i \in bad : \A j \in bad : i <= j])
        ELSE IF ~ValidConceptCount(Len(output.concepts))
        THEN <<ConceptCountError(Len(output.concepts))>>
        ELSE <<>>

\* the last answer of the run was accepted: it has an output and no error
LastAccepted(run) ==
    /\ run.pc = "done"
    /\ Len(run.answers) >= 1
    /\ run.thrown = None
    /\ run.answers[Len(run.answers)].parsed # None
    /\ run.answers[Len(run.answers)].error = None

\* every call reported counters a TokenUsage can hold
UsageHolds(run) ==
    \A i \in 1..Len(run.answers) : \A k \in UsageKeys : Reported(run.answers[i].raw, k) >= 0

\* the run raised SchemaValidationFailedError with one entry per error
ConvertedFrom(run, errors) ==
    /\ run.returned = None
    /\ run.raised # None
    /\ run.raised.type = "SchemaValidationFailedError"
    /\ run.raised.message = "Deck output failed schema validation."
    /\ DOMAIN run.raised.details = {"validation_errors"}
    /\ Len(run.raised.details.validation_errors) = Len(errors)
    /\ \A i \in 1..Len(errors) :
          run.raised.details.validation_errors[i] =
              [field |-> IF errors[i].loc = <<>> THEN "response" ELSE JoinDot(errors[i].loc),
               message |-> errors[i].msg,
               type |-> errors[i].type]

Ended(run) ==
    /\ run.pc = "done"
    /\ \/ run.returned # None /\ run.raised = None
       \/ /\ run.returned = None
          /\ run.raised # None
          /\ \/ run.raised.type = "SchemaValidationFailedError"
             \/ run.raised = run.thrown /\ run.thrown \in ProviderFailures

\* the run awaits the answer to the call it made last
AwaitsCall(run) ==
    /\ run.pc \in {"primary", "repair"}
    /\ Len(run.sent) = Len(run.answers) + 1

C29_RunsStep ==
    \A r \in DOMAIN runs :
        /\ runs[r].ainvoke_count <= 2
        /\ Len(runs[r].sent) = runs[r].ainvoke_count
        /\ \/ runs[r].pc = "start" /\ runs[r].ainvoke_count = 0
           \/ AwaitsCall(runs[r])
           \/ Ended(runs[r])

C29_Terminates ==
    /\ []C29_RunsStep
    /\ \A r \in RunIds : <>[]Ended(runs[r])

\* a run that has ended with a deck after two calls
C29_Witness ==
    \E r \in DOMAIN runs :
        /\ Ended(runs[r])
        /\ runs[r].ainvoke_count = 2
        /\ runs[r].returned # None

(***************************************************************************)
(* C30: get_llm_client hands out at most one LLMClient.  Every call before *)
(* the first successful construction runs the constructor; a call made     *)
(* while OPENAI_API_KEY is unset or empty raises ValueError and leaves the *)
(* singleton unset; after the first successful construction every call     *)
(* returns that client and runs no constructor, whatever the environment   *)
(* has become.                                                             *)
(***************************************************************************)
\* the calls that returned a client
Handed == {i \in 1..Len(client_calls) : ~IsException(client_calls[i].result)}

C30_OneClient ==
    /\ Cardinality({i \in Handed : client_calls[i].constructs}) <= 1
    /\ llm_client = None <=> Handed = {}
    /\ \A i \in 1..Len(client_calls) :
          /\ IsException(client_calls[i].result) =>
                /\ client_calls[i].constructs
                /\ client_calls[i].result.type = "ValueError"
          /\ (\A j \in Handed : j >= i) => client_calls[i].constructs
          /\ (\E j \in Handed : j < i) =>
                /\ ~client_calls[i].constructs
                /\ client_calls[i].result = llm_client
                /\ \A j \in Handed : client_calls[j].result = client_calls[i].result

\* what one call does to the singleton
C30_Call ==
    Len(client_calls') = Len(client_calls) + 1 =>
        LET call == client_calls'[Len(client_calls')]
        IN  /\ (llm_client = None /\ getenv(environ, "OPENAI_API_KEY", "") = "") =>
                  /\ IsException(call.result)
                  /\ llm_client' = None
            /\ (llm_client = None /\ getenv(environ, "OPENAI_API_KEY", "") # "") =>
                  /\ call.constructs
                  /\ call.result.tag = "LLMClient"
                  /\ llm_client' = call.result
            /\ llm_client # None =>
                  /\ ~call.constructs
                  /\ call.result = llm_client
                  /\ llm_client' = llm_client

C30_Singleton == []C30_OneClient /\ [][C30_Call]_vars

\* a call failed, the next one constructed the client, and a call made after
\* the environment named another model still returned that client
C30_Witness ==
    /\ Len(client_calls) = 3
    /\ IsException(client_calls[1].result)
    /\ client_calls[2].constructs
    /\ ~IsException(client_calls[2].result)
    /\ ~client_calls[3].constructs
    /\ client_calls[3].result = client_calls[2].result
    /\ getenv(environ, "OPENAI_MODEL", DEFAULT_MODEL) # client_calls[3].result.model

====
